---- MODULE Spec2Model ----
(***************************************************************************)
(* Model of the self-evolution pipeline of clawdbot:                       *)
(*   SelfEvolutionEngine  (evolution/self-evolution-engine.ts)             *)
(*   SkillGenerator       (evolution/skill-generator.ts)                   *)
(*   SkillValidator       (evolution/skill-validator.ts)                   *)
(*   SkillCompiler        (evolution/skill-compiler.ts, saveSkill)         *)
(*   SkillRepository      (evolution/index.ts)                             *)
(*                                                                         *)
(* The engine runs on one JavaScript event loop: an action of the model is *)
(* the code that runs between two awaits of an async call.  A source text  *)
(* is modelled by the set of lexical features the validator's regular      *)
(* expressions look for; the empty set is the empty string.                *)
(***************************************************************************)
EXTENDS Integers, Sequences, FiniteSets, TLC

\* ---------------------------------------------------------------- bounds
\* evolveSkill invocations made in one behaviour
MaxCalls == 3
\* capability gaps created in one behaviour
MaxGaps == 2
\* pipeline runs whose completion calls are answered; the completion service
\* enforces no timeout, so a later run waits on its first call for ever
MaxRuns == 1
\* validate invocations made on one skill by a host of the validator
MaxValidations == 2
\* highest patch number updateSkill is asked to leave behind
MaxPatch == 2
\* longest version list updateSkill is asked to extend is one shorter
MaxVersions == 3
\* largest keep count given to cleanupOldVersions
MaxKeep == 2
\* reportFailure calls in a run of the failure reports on their own
MaxReports == 3
\* recordExecution calls in a run of the usage statistics on their own
MaxExecutions == 4
\* significant bits of the floating-point numbers of the model (the program's
\* numbers are binary64, with 53)
MantissaBits == 11
\* events logged in a run of the event log on its own
MaxEmitted == 1600
\* events a long-running engine has logged when a run of the event log starts
LoggedBefore == 990

\* ------------------------------------------------------ program constants
HistoryCeiling == 1000
HistoryKeep == 500
MaxIterations == 3
\* minTestCoverage = 0.8, kept as the fraction CoverageNum / CoverageDen
CoverageNum == 8
CoverageDen == 10

AllowedPermissions == {"file:read", "file:write", "network:http"}
BlockedPatterns == <<"eval\\(", "Function\\(", "child_process">>

\* --------------------------------------------------------------- helpers
Last(s) == s[Len(s)]

RECURSIVE CountTrue(_)
CountTrue(s) == IF s = <<>> THEN 0
                ELSE (IF Head(s) THEN 1 ELSE 0) + CountTrue(Tail(s))

\* ---------------------------------------------------------- source texts
\* Features a source text may contain.  The four shapes are the ones both
\* basicSyntaxCheck and validateSyntax require.
RequiredShapes == {"classExtendsBaseSkill", "manifest", "asyncExecute", "export"}
EmptyText == {}
GoodText == RequiredShapes
NoExportText == RequiredShapes \ {"export"}
UnbalancedText == RequiredShapes \cup {"unbalancedBracket"}
EvalText == RequiredShapes \cup {"eval("}
FetchSpawnText == RequiredShapes \cup {"fetch(a+b)", "child_process"}
EvalNoExportText == NoExportText \cup {"eval("}

\* What a completion may hold as its fenced typescript block.
CompletionTexts == {GoodText, NoExportText, EvalText}

\* ------------------------------------------------------- skill templates
\* Raw templates as the completion returns them: a missing field is <<>>.
\* A name is the sequence of its characters, a version the sequence of its
\* dot-separated components.
RawPlain == [name |-> <<"C", "s", "v">>, version |-> <<"1", "0", "0">>,
             permissions |-> <<"file:read">>, testCases |-> 0]
RawPartial == [name |-> <<>>, version |-> <<>>,
               permissions |-> <<"system:exec">>, testCases |-> 1]
RawTemplates == {RawPlain, RawPartial}
\* a template whose version is written with a leading "v"
RawPrefixed == [name |-> <<"C", "s", "v">>, version |-> <<"v1", "0", "0">>,
                permissions |-> <<"file:read">>, testCases |-> 0]
\* a template with five test cases, for the validator on its own
RawTested == [name |-> <<"C", "s", "v">>, version |-> <<"1", "0", "0">>,
              permissions |-> <<"file:read", "network:http">>, testCases |-> 5]

\* SkillGenerator.normalizeTemplate
NormalizeTemplate(t) ==
  [name |-> IF t.name = <<>> THEN <<"u", "n", "n", "a", "m", "e", "d", "-", "s", "k", "i", "l", "l">>
            ELSE t.name,
   version |-> IF t.version = <<>> THEN <<"1", "0", "0">> ELSE t.version,
   permissions |-> t.permissions,
   testCases |-> t.testCases]

\* ------------------------------------------------------------ file names
ToLowerCase(ch) ==
  CASE ch = "A" -> "a"
    [] ch = "B" -> "b"
    [] ch = "C" -> "c"
    [] OTHER -> ch

SlugChars == {"a", "b", "c", "d", "e", "i", "k", "l", "m", "n", "s", "u", "v",
              "0", "1", "-"}

RECURSIVE ReplaceOutside(_)
ReplaceOutside(s) ==
  IF s = <<>> THEN <<>>
  ELSE LET c == ToLowerCase(Head(s))
       IN <<IF c \in SlugChars THEN c ELSE "-">> \o ReplaceOutside(Tail(s))

RECURSIVE CollapseDashes(_)
CollapseDashes(s) ==
  IF Len(s) < 2 THEN s
  ELSE IF s[1] = "-" /\ s[2] = "-" THEN CollapseDashes(Tail(s))
       ELSE <<s[1]>> \o CollapseDashes(Tail(s))

StripEdgeDashes(s) ==
  LET a == IF s # <<>> /\ Head(s) = "-" THEN Tail(s) ELSE s
  IN IF a # <<>> /\ Last(a) = "-" THEN SubSeq(a, 1, Len(a) - 1) ELSE a

\* SkillCompiler.sanitizeFileName
SanitizeFileName(name) == StripEdgeDashes(CollapseDashes(ReplaceOutside(name)))

\* SkillRepository.sanitizeName
SanitizeName(name) ==
  LET s == SanitizeFileName(name)
  IN IF s = <<>> THEN <<"u", "n", "n", "a", "m", "e", "d", "-", "s", "k", "i", "l", "l">>
     ELSE s

\* SkillRepository.hashCode: the first 16 hex digits of the SHA-256 of the
\* text, a digest that depends on the text alone.
HashCode(code) == <<"sha256:16", code>>

\* ------------------------------------------------------------- validator
\* SkillValidator.validateSyntax: the four required shapes, bracket
\* counting and the two "common error" patterns.
ValidateSyntax(code) ==
  /\ RequiredShapes \subseteq code
  /\ "unbalancedBracket" \notin code
  /\ "doubleSemicolonAtEnd" \notin code
  /\ "trailingComma" \notin code

\* new RegExp(blockedPattern).test(code) for the configured patterns
BlockedPatternMatches(pattern, code) ==
  CASE pattern = "eval\\(" -> "eval(" \in code
    [] pattern = "Function\\(" -> "new Function(" \in code
    [] pattern = "child_process" -> "child_process" \in code
    [] OTHER -> FALSE

\* DangerousPatterns without the row for string-concatenated fetch calls.
DangerousPatternsNoSsrf ==
  << [feature |-> {"eval(", "eval ("}, severity |-> "critical", category |-> "code-injection"],
     [feature |-> {"new Function("}, severity |-> "critical", category |-> "code-injection"],
     [feature |-> {"child_process"}, severity |-> "high", category |-> "process-execution"],
     [feature |-> {"require('fs')"}, severity |-> "medium", category |-> "file-access"],
     [feature |-> {"process.env"}, severity |-> "medium", category |-> "environment-access"],
     [feature |-> {"innerHTML"}, severity |-> "medium", category |-> "xss"],
     [feature |-> {".exec("}, severity |-> "low", category |-> "regex-dos"] >>

\* the dangerousPatterns table of performSecurityReview, in its order
DangerousPatterns ==
  << [feature |-> {"eval(", "eval ("}, severity |-> "critical", category |-> "code-injection"],
     [feature |-> {"new Function("}, severity |-> "critical", category |-> "code-injection"],
     [feature |-> {"child_process"}, severity |-> "high", category |-> "process-execution"],
     [feature |-> {"require('fs')"}, severity |-> "medium", category |-> "file-access"],
     [feature |-> {"process.env"}, severity |-> "medium", category |-> "environment-access"],
     [feature |-> {"fetch(a+b)"}, severity |-> "medium", category |-> "ssrf"],
     [feature |-> {"innerHTML"}, severity |-> "medium", category |-> "xss"],
     [feature |-> {".exec("}, severity |-> "low", category |-> "regex-dos"] >>

RECURSIVE BlockedRisks(_, _)
BlockedRisks(patterns, code) ==
  IF patterns = <<>> THEN <<>>
  ELSE (IF BlockedPatternMatches(Head(patterns), code)
        THEN <<[severity |-> "critical", category |-> "blocked-pattern"]>>
        ELSE <<>>) \o BlockedRisks(Tail(patterns), code)

RECURSIVE DangerousRisks(_, _)
DangerousRisks(table, code) ==
  IF table = <<>> THEN <<>>
  ELSE (IF Head(table).feature \cap code # {}
        THEN <<[severity |-> Head(table).severity, category |-> Head(table).category]>>
        ELSE <<>>) \o DangerousRisks(Tail(table), code)

RECURSIVE PermissionRisks(_)
PermissionRisks(perms) ==
  IF perms = <<>> THEN <<>>
  ELSE (IF Head(perms) \notin AllowedPermissions
        THEN <<[severity |-> "high", category |-> "unauthorized-permission"]>>
        ELSE <<>>) \o PermissionRisks(Tail(perms))

HasSeverity(risks, sev) == \E i \in 1..Len(risks) : risks[i].severity = sev

\* PerformSecurityReview without the scan for the configured blockedPatterns.
PerformSecurityReviewNoBlocklist(skill, cfg) ==
  LET risks == DangerousRisks(DangerousPatterns, skill.code)
               \o PermissionRisks(skill.template.permissions)
      hasCritical == HasSeverity(risks, "critical")
      hasHigh == HasSeverity(risks, "high")
  IN [passed |-> ~hasCritical /\ (~hasHigh \/ ~cfg.requireReview),
      risks |-> risks,
      recommendations |-> IF risks = <<>> THEN 0
                          ELSE IF hasCritical THEN 3 ELSE 2]

\* PerformSecurityReview failing on every high risk, review required or not.
PerformSecurityReviewStrict(skill, cfg) ==
  LET risks == BlockedRisks(BlockedPatterns, skill.code)
               \o DangerousRisks(DangerousPatterns, skill.code)
               \o PermissionRisks(skill.template.permissions)
      hasCritical == HasSeverity(risks, "critical")
      hasHigh == HasSeverity(risks, "high")
  IN [passed |-> ~hasCritical /\ ~hasHigh,
      risks |-> risks,
      recommendations |-> IF risks = <<>> THEN 0
                          ELSE IF hasCritical THEN 3 ELSE 2]

\* SkillValidator.performSecurityReview
PerformSecurityReview(skill, cfg) ==
  LET risks == BlockedRisks(BlockedPatterns, skill.code)
               \o DangerousRisks(DangerousPatterns, skill.code)
               \o PermissionRisks(skill.template.permissions)
      hasCritical == HasSeverity(risks, "critical")
      hasHigh == HasSeverity(risks, "high")
  IN [passed |-> ~hasCritical /\ (~hasHigh \/ ~cfg.requireReview),
      risks |-> risks,
      recommendations |-> IF risks = <<>> THEN 0
                          ELSE IF hasCritical THEN 3 ELSE 2]

\* validateTypes failing closed: only an answer that says valid passes
ValidateTypesFailClosed(answer) == answer = "valid"

\* SkillValidator.validateTypes: what the oracle's answer is turned into.
\* The completion call throws ("throws"), its response holds no json block
\* ("noJsonBlock"), JSON.parse rejects the block ("unparsable"), or the block
\* is parsed and says valid or invalid.  Only the last is reported as invalid.
ValidateTypes(answer) == answer # "invalid"
TypeAnswers == {"valid", "invalid", "unparsable", "noJsonBlock", "throws"}

\* passRate < minTestCoverage, over integers
BelowCoverage(results) ==
  LET total == Len(results)
      passRateNum == IF total > 0 THEN CountTrue(results) ELSE 1
      passRateDen == IF total > 0 THEN total ELSE 1
  IN passRateNum * CoverageDen < CoverageNum * passRateDen

\* Validate without the coverage threshold on the simulated tests.
ValidateIgnoringCoverage(skill, cfg, typeAnswer, testAnswers) ==
  LET v0 == skill.validation
      v1 == [v0 EXCEPT !.syntaxValid = ValidateSyntax(skill.code)]
      v2 == [v1 EXCEPT !.typeCheckPassed =
                IF cfg.typeCheck THEN ValidateTypes(typeAnswer) ELSE TRUE]
      v3 == IF cfg.securityReview
            THEN [v2 EXCEPT !.securityReview = PerformSecurityReview(skill, cfg)]
            ELSE v2
      testsRun == cfg.runTests /\ skill.template.testCases > 0
      v4 == IF testsRun THEN [v3 EXCEPT !.testResults = testAnswers] ELSE v3
      Failed(v) == [skill EXCEPT !.validation = [v EXCEPT !.status = "failed"]]
  IN IF ~v1.syntaxValid THEN Failed(v1)
     ELSE IF ~v2.typeCheckPassed THEN Failed(v2)
     ELSE IF cfg.securityReview /\ ~v3.securityReview.passed THEN Failed(v3)
     ELSE [skill EXCEPT !.validation = [v4 EXCEPT !.status = "passed"],
                        !.status = "validated"]

\* SkillValidator.validate.  typeAnswer and testAnswers are the oracle's
\* answers; the record is updated in place, gate by gate.
Validate(skill, cfg, typeAnswer, testAnswers) ==
  LET v0 == skill.validation
      v1 == [v0 EXCEPT !.syntaxValid = ValidateSyntax(skill.code)]
      v2 == [v1 EXCEPT !.typeCheckPassed =
                IF cfg.typeCheck THEN ValidateTypes(typeAnswer) ELSE TRUE]
      v3 == IF cfg.securityReview
            THEN [v2 EXCEPT !.securityReview = PerformSecurityReview(skill, cfg)]
            ELSE v2
      testsRun == cfg.runTests /\ skill.template.testCases > 0
      v4 == IF testsRun THEN [v3 EXCEPT !.testResults = testAnswers] ELSE v3
      Failed(v) == [skill EXCEPT !.validation = [v EXCEPT !.status = "failed"]]
  IN IF ~v1.syntaxValid THEN Failed(v1)
     ELSE IF ~v2.typeCheckPassed THEN Failed(v2)
     ELSE IF cfg.securityReview /\ ~v3.securityReview.passed THEN Failed(v3)
     ELSE IF testsRun /\ BelowCoverage(v4.testResults) THEN Failed(v4)
     ELSE [skill EXCEPT !.validation = [v4 EXCEPT !.status = "passed"],
                        !.status = "validated"]

\* the validation record generateSkill builds
PendingValidation ==
  [status |-> "pending", syntaxValid |-> FALSE, typeCheckPassed |-> FALSE,
   testResults |-> <<>>,
   securityReview |-> [passed |-> FALSE, risks |-> <<>>, recommendations |-> 0]]

\* SkillGenerator.basicSyntaxCheck
BasicSyntaxCheck(code) == RequiredShapes \subseteq code

\* ----------------------------------------------------------------- state
VARIABLES
  config,            \* SelfEvolutionEngine.config (fixed at construction)
  gaps,              \* the CapabilityGap objects created so far, by id
  pendingGaps,       \* SelfEvolutionEngine.pendingGaps (ids of its keys)
  isEvolving,        \* SelfEvolutionEngine.isEvolving
  evolutionHistory,  \* SelfEvolutionEngine.evolutionHistory
  calls,             \* the evolveSkill invocations made so far
  skills,            \* the GeneratedSkill objects created so far, by id
  repo               \* SkillRepository: index, initialized, and the disk

vars == <<config, gaps, pendingGaps, isEvolving, evolutionHistory,
          calls, skills, repo>>

\* getDefaultConfig() with the three switches the constructor may override
ConfigWith(autoEvolve, autoApprove, requireReview) ==
  [autoEvolve |-> autoEvolve, autoApprove |-> autoApprove,
   requireReview |-> requireReview,
   typeCheck |-> TRUE, securityReview |-> TRUE, runTests |-> TRUE]

\* The configurations the engine is constructed with: the default one, one
\* with deployment.autoApprove, one without security.requireReview and one
\* without autoEvolve.
Configs == {ConfigWith(TRUE, FALSE, TRUE), ConfigWith(TRUE, TRUE, TRUE),
            ConfigWith(TRUE, FALSE, FALSE), ConfigWith(FALSE, FALSE, TRUE)}

NoPaths == [markdown |-> <<>>, typescript |-> <<>>]

Init ==
  /\ config \in Configs
  /\ gaps = <<>>
  /\ pendingGaps = {}
  /\ isEvolving = FALSE
  /\ evolutionHistory = <<>>
  /\ calls = <<>>
  /\ skills = <<>>
  /\ repo = [initialized |-> FALSE, index |-> <<>>,
             diskIndex |-> [exists |-> FALSE, complete |-> FALSE, skills |-> <<>>],
             files |-> <<>>]

\* ------------------------------------------------------------- event log
Event(type, result, gap, skill, error) ==
  [type |-> type, result |-> result, gap |-> gap, skill |-> skill, error |-> error]

\* logEvent trimming from the wrong end: the oldest events are kept
LogEventKeepsOldest(history, event) ==
  LET h == Append(history, event)
  IN IF Len(h) > HistoryCeiling
     THEN SubSeq(h, 1, HistoryKeep)
     ELSE h

\* SelfEvolutionEngine.logEvent
LogEvent(history, event) ==
  LET h == Append(history, event)
  IN IF Len(h) > HistoryCeiling
     THEN SubSeq(h, Len(h) - HistoryKeep + 1, Len(h))
     ELSE h

\* SelfEvolutionEngine.getEvolutionHistory: a new array of the stored events
GetEvolutionHistory(history) == [i \in 1..Len(history) |-> history[i]]

\* ------------------------------------------------- floating-point numbers
\* A JavaScript number is a binary floating-point number: 0 or m * 2^e with
\* MantissaBits significant bits, 2^(MantissaBits-1) <= |m| < 2^MantissaBits.
\* Every arithmetic operation gives the exact result rounded to the nearest
\* such number, ties to the even mantissa.  Overflow and underflow are out of
\* reach of the values used here.
RECURSIVE Pow2(_)
Pow2(k) == IF k <= 0 THEN 1 ELSE 2 * Pow2(k - 1)

RECURSIVE BitLength(_)
BitLength(a) == IF a <= 0 THEN 0 ELSE 1 + BitLength(a \div 2)

Abs(i) == IF i < 0 THEN -i ELSE i
Sign(i) == IF i < 0 THEN -1 ELSE 1

FloatZero == [m |-> 0, e |-> 0]

\* The number nearest to M * 2^E
RoundToFloat(M, E) ==
  IF M = 0 THEN FloatZero
  ELSE LET a == Abs(M)
           b == BitLength(a)
           k == b - MantissaBits
           q == a \div Pow2(k)
           r == a % Pow2(k)
           half == Pow2(k - 1)
           up == r > half \/ (r = half /\ q % 2 = 1)
           q2 == IF up THEN q + 1 ELSE q
       IN IF k <= 0
          THEN [m |-> Sign(M) * a * Pow2(-k), e |-> E + k]
          ELSE IF q2 = Pow2(MantissaBits)
          THEN [m |-> Sign(M) * Pow2(MantissaBits - 1), e |-> E + k + 1]
          ELSE [m |-> Sign(M) * q2, e |-> E + k]

FloatOfInt(i) == RoundToFloat(i, 0)

\* x + y: an operand more than MantissaBits + 3 binary places below the other
\* does not change the rounded sum
FloatAdd(x, y) ==
  IF x.m = 0 THEN y
  ELSE IF y.m = 0 THEN x
  ELSE IF x.e - y.e > MantissaBits + 3 THEN x
  ELSE IF y.e - x.e > MantissaBits + 3 THEN y
  ELSE LET e == IF x.e < y.e THEN x.e ELSE y.e
       IN RoundToFloat(x.m * Pow2(x.e - e) + y.m * Pow2(y.e - e), e)

FloatSub(x, y) == FloatAdd(x, [y EXCEPT !.m = -@])

\* x * k for an integer k
FloatMulInt(x, k) == RoundToFloat(x.m * k, x.e)

\* x / n for an integer n > 0: the quotient is computed to more than
\* MantissaBits + 2 bits and a last bit records whether anything was left
FloatDivInt(x, n) ==
  IF x.m = 0 THEN FloatZero
  ELSE LET K == BitLength(n) + 2
           a == Abs(x.m) * Pow2(K)
           q == a \div n
           sticky == IF a % n # 0 THEN 1 ELSE 0
       IN RoundToFloat(Sign(x.m) * (2 * q + sticky), x.e - K - 1)

\* ------------------------------------------------------------ repository
\* A filesystem call may fail: of the n writes of an operation, write number
\* failAt fails (0: none does); the error it throws is FsError.
FailPoints(n) == 0..n
InitFails == BOOLEAN
FsError == "Error: EIO"

WriteFile(files, path, content) == (path :> content) @@ files

\* SkillRepository.saveIndex: one fs.writeFile of the whole index onto the
\* index file.  complete: the file holds the whole JSON text.
SaveIndex(r) ==
  [r EXCEPT !.diskIndex = [exists |-> TRUE, complete |-> TRUE, skills |-> r.index]]

\* SkillRepository.ensureInitialized / initialize.  Result: the repository and
\* the error thrown ("" when none).  A missing index file and one that
\* JSON.parse rejects both end in the inner catch, which saves the index the
\* constructor built.
EnsureInitialized(r, initFail) ==
  IF r.initialized THEN [r |-> r, err |-> ""]
  ELSE IF initFail THEN [r |-> r, err |-> FsError]
  ELSE IF r.diskIndex.exists /\ r.diskIndex.complete
       THEN [r |-> [r EXCEPT !.index = r.diskIndex.skills, !.initialized = TRUE],
             err |-> ""]
       ELSE [r |-> [SaveIndex(r) EXCEPT !.initialized = TRUE], err |-> ""]

\* CreateEntry enabling every entry it creates.
CreateEntryEnabled(skill) ==
  LET baseName == SanitizeName(skill.template.name)
  IN [id |-> skill.id,
      template |-> skill.template,
      paths |-> [markdown |-> <<"templates", baseName, "md">>,
                 typescript |-> <<"skills", baseName, "ts">>],
      versions |-> <<[version |-> skill.template.version,
                      hash |-> HashCode(skill.code)]>>,
      currentVersion |-> skill.template.version,
      stats |-> [executionCount |-> 0, successRate |-> FloatZero,
                 averageExecutionTime |-> FloatZero],
      enabled |-> TRUE,
      loadState |-> "unloaded"]

\* SkillRepository.createEntry
CreateEntry(skill) ==
  LET baseName == SanitizeName(skill.template.name)
  IN [id |-> skill.id,
      template |-> skill.template,
      paths |-> [markdown |-> <<"templates", baseName, "md">>,
                 typescript |-> <<"skills", baseName, "ts">>],
      versions |-> <<[version |-> skill.template.version,
                      hash |-> HashCode(skill.code)]>>,
      currentVersion |-> skill.template.version,
      stats |-> [executionCount |-> 0, successRate |-> FloatZero,
                 averageExecutionTime |-> FloatZero],
      enabled |-> (skill.status = "deployed"),
      loadState |-> "unloaded"]

\* SkillRepository.add: failAt = 0 for no failure, else the number of the
\* filesystem write that fails (1 source file, 2 markdown file, 3 index).
RepositoryAdd(r0, skill, initFail, failAt) ==
  LET i == EnsureInitialized(r0, initFail)
      r1 == [i.r EXCEPT !.index = (skill.id :> CreateEntry(skill)) @@ i.r.index]
      entry == r1.index[skill.id]
      r2 == [r1 EXCEPT !.files = WriteFile(r1.files, entry.paths.typescript, skill.code)]
      r3 == [r2 EXCEPT !.files = WriteFile(r2.files, entry.paths.markdown, skill.template)]
  IN IF i.err # "" THEN i
     ELSE IF failAt = 1 THEN [r |-> r1, err |-> FsError]
     ELSE IF failAt = 2 THEN [r |-> r2, err |-> FsError]
     ELSE IF failAt = 3 THEN [r |-> r3, err |-> FsError]
     ELSE [r |-> SaveIndex(r3), err |-> ""]

\* SkillRepository.updateEntry: Object.assign(entry, updates), then saveIndex.
\* updates is a record holding the fields to overwrite.
UpdateEntry(r0, skillId, updates, initFail, failAt) ==
  LET i == EnsureInitialized(r0, initFail)
      r1 == [i.r EXCEPT !.index[skillId] = updates @@ @]
  IN IF i.err # "" THEN i
     ELSE IF skillId \notin DOMAIN i.r.index
          THEN [r |-> i.r, err |-> "Skill not found"]
     ELSE IF failAt = 1 THEN [r |-> r1, err |-> FsError]
     ELSE [r |-> SaveIndex(r1), err |-> ""]

\* updateEntry as deploySkill calls it: the updates are
\* {paths, enabled: true, loadState: 'unloaded'}.
RepositoryUpdateEntry(r0, skillId, paths, initFail, failAt) ==
  UpdateEntry(r0, skillId,
              [paths |-> paths, enabled |-> TRUE, loadState |-> "unloaded"],
              initFail, failAt)

\* deprecate(skillId)
RepositoryDeprecate(r0, skillId, initFail, failAt) ==
  UpdateEntry(r0, skillId, [enabled |-> FALSE], initFail, failAt)

\* Number(component) of a version component: the numerals listed stand for
\* themselves, every other text is NaN.
Numerals == <<"0", "1", "2", "3", "4", "5", "6", "7", "8", "9">>
IsNumeral(c) == \E i \in 1..Len(Numerals) : Numerals[i] = c
NumberOf(c) == (CHOOSE i \in 1..Len(Numerals) : Numerals[i] = c) - 1
NumeralOf(n) == Numerals[n + 1]

\* SkillRepository.incrementVersion: split('.').map(Number), then
\* parts[2] = (parts[2] || 0) + 1, then join('.').  NaN and a missing third
\* part count as 0; a hole left before the third part joins as "".
IncrementVersion(version) ==
  LET old == IF Len(version) >= 3 /\ IsNumeral(version[3])
             THEN NumberOf(version[3]) ELSE 0
      n == IF Len(version) > 3 THEN Len(version) ELSE 3
  IN [i \in 1..n |->
        IF i = 3 THEN NumeralOf(old + 1)
        ELSE IF i > Len(version) THEN ""
        ELSE IF IsNumeral(version[i]) THEN version[i]
        ELSE "NaN"]

\* SkillRepository.updateSkill: failAt numbers the filesystem write that
\* fails (1 source file, 2 markdown file, 3 index).  The entry is changed in
\* memory before the first write; saveSkillFiles throws a TypeError when the
\* entry's paths lack the keys it reads.
RepositoryUpdateSkill(r0, skillId, skill, initFail, failAt) ==
  LET i == EnsureInitialized(r0, initFail)
      entry == i.r.index[skillId]
      newVersion == IncrementVersion(entry.currentVersion)
      e1 == [entry EXCEPT !.versions = Append(@, [version |-> newVersion,
                                                   hash |-> HashCode(skill.code)]),
                          !.currentVersion = newVersion,
                          !.template = skill.template]
      r1 == [i.r EXCEPT !.index[skillId] = e1]
      r2 == [r1 EXCEPT !.files = WriteFile(r1.files, entry.paths.typescript, skill.code)]
      r3 == [r2 EXCEPT !.files = WriteFile(r2.files, entry.paths.markdown, skill.template)]
  IN IF i.err # "" THEN i
     ELSE IF skillId \notin DOMAIN i.r.index
          THEN [r |-> i.r, err |-> "Skill not found"]
     ELSE IF "typescript" \notin DOMAIN entry.paths
          THEN [r |-> r1, err |-> "TypeError: path"]
     ELSE IF failAt = 1 THEN [r |-> r1, err |-> FsError]
     ELSE IF failAt = 2 THEN [r |-> r2, err |-> FsError]
     ELSE IF failAt = 3 THEN [r |-> r3, err |-> FsError]
     ELSE [r |-> SaveIndex(r3), err |-> ""]

\* Array.prototype.slice(-n) for 0 <= n <= Len(s): -0 is 0, so slice(-0)
\* copies the whole array.
SliceFromEnd(s, n) == IF n = 0 THEN s ELSE SubSeq(s, Len(s) - n + 1, Len(s))

\* SkillRepository.cleanupOldVersions(keepVersions)
RepositoryCleanupOldVersions(r0, keepVersions, initFail, failAt) ==
  LET i == EnsureInitialized(r0, initFail)
      r1 == [i.r EXCEPT !.index =
               [id \in DOMAIN i.r.index |->
                  IF Len(i.r.index[id].versions) > keepVersions
                  THEN [i.r.index[id] EXCEPT !.versions = SliceFromEnd(@, keepVersions)]
                  ELSE i.r.index[id]]]
  IN IF i.err # "" THEN i
     ELSE IF failAt = 1 THEN [r |-> r1, err |-> FsError]
     ELSE [r |-> SaveIndex(r1), err |-> ""]

\* SkillRepository.import(data): entries under ids the index lacks are taken
\* as they are.
RepositoryImport(r0, data, initFail, failAt) ==
  LET i == EnsureInitialized(r0, initFail)
      r1 == [i.r EXCEPT !.index = i.r.index @@ data]
  IN IF i.err # "" THEN i
     ELSE IF failAt = 1 THEN [r |-> r1, err |-> FsError]
     ELSE [r |-> SaveIndex(r1), err |-> ""]

\* SkillRepository.remove(skillId): unlinks the files the entry's paths name
\* (errors ignored), deletes the entry, saves the index.
RepositoryRemove(r0, skillId, initFail, failAt) ==
  LET i == EnsureInitialized(r0, initFail)
      entry == i.r.index[skillId]
      gone == {entry.paths[k] : k \in DOMAIN entry.paths \cap {"markdown", "typescript"}}
      r1 == [i.r EXCEPT !.files = [f \in DOMAIN i.r.files \ gone |-> i.r.files[f]],
                        !.index = [id \in DOMAIN i.r.index \ {skillId} |-> i.r.index[id]]]
  IN IF i.err # "" THEN i
     ELSE IF skillId \notin DOMAIN i.r.index THEN [r |-> i.r, err |-> ""]
     ELSE IF failAt = 1 THEN [r |-> r1, err |-> FsError]
     ELSE [r |-> SaveIndex(r1), err |-> ""]

\* recordExecution leaving the success rate as it was after a failure
RecordExecutionKeepsRate(r, skillId, success, executionTime) ==
  IF skillId \notin DOMAIN r.index THEN r
  ELSE LET stats == r.index[skillId].stats
           n == stats.executionCount + 1
           oldAvg == stats.averageExecutionTime
           avg == FloatAdd(oldAvg,
                           FloatDivInt(FloatSub(FloatOfInt(executionTime), oldAvg), n))
           rate == IF success
                   THEN FloatDivInt(FloatAdd(FloatMulInt(stats.successRate, n - 1),
                                             FloatOfInt(1)), n)
                   ELSE stats.successRate
       IN SaveIndex([r EXCEPT !.index[skillId].stats =
                       [executionCount |-> n, successRate |-> rate,
                        averageExecutionTime |-> avg]])

\* SkillRepository.recordExecution(skillId, success, executionTime): the
\* index in memory is read as it is (no ensureInitialized); an id it lacks
\* ends the call.  The result is the repository after the call.
RecordExecution(r, skillId, success, executionTime) ==
  IF skillId \notin DOMAIN r.index THEN r
  ELSE LET stats == r.index[skillId].stats
           n == stats.executionCount + 1
           oldAvg == stats.averageExecutionTime
           avg == FloatAdd(oldAvg,
                           FloatDivInt(FloatSub(FloatOfInt(executionTime), oldAvg), n))
           rate == IF success
                   THEN FloatDivInt(FloatAdd(FloatMulInt(stats.successRate, n - 1),
                                             FloatOfInt(1)), n)
                   ELSE FloatDivInt(FloatMulInt(stats.successRate, n - 1), n)
       IN SaveIndex([r EXCEPT !.index[skillId].stats =
                       [executionCount |-> n, successRate |-> rate,
                        averageExecutionTime |-> avg]])

\* SkillCompiler.saveSkill: writes <root>/<base>.md then <root>/<base>.ts
CompilerSaveSkill(r, skill, failAt) ==
  LET baseName == SanitizeFileName(skill.template.name)
      md == <<"root", baseName, "md">>
      ts == <<"root", baseName, "ts">>
      r1 == [r EXCEPT !.files = WriteFile(r.files, md, skill.template)]
      r2 == [r1 EXCEPT !.files = WriteFile(r1.files, ts, skill.code)]
  IN IF failAt = 1 THEN [r |-> r, err |-> FsError, paths |-> NoPaths]
     ELSE IF failAt = 2 THEN [r |-> r1, err |-> FsError, paths |-> NoPaths]
     ELSE [r |-> r2, err |-> "",
           paths |-> [markdownPath |-> md, typescriptPath |-> ts]]

\* ---------------------------------------------------------------- engine
\* One evolveSkill invocation: its position (pc), its argument, the locals
\* of generateSkill while it runs, the skill it works on, what the caller
\* got (ret: "pending", "null", "skill", "throw"), the error raised in it
\* (String(error), "" when none), how many times it called validate and
\* repairSkill, and its rank among the calls that acquired the busy flag
\* (run, 0 when it did not).
NewCall(g) ==
  [pc |-> "done", gap |-> g, run |-> 0, skill |-> 0, ret |-> "pending", err |-> "",
   template |-> NormalizeTemplate(RawPlain), code |-> EmptyText,
   iterations |-> 0, lastError |-> "", nValidate |-> 0, nRepair |-> 0]

Running == {c \in 1..Len(calls) : calls[c].pc # "done"}

\* Leaving generateSkill drops its locals.
DropLocals(call) ==
  [call EXCEPT !.template = NormalizeTemplate(RawPlain), !.code = EmptyText,
               !.iterations = 0, !.lastError = ""]

\* The synchronous head of evolveSkill (lines 123-141), up to the first
\* await, from the given engine state.  Result: the new engine fields and
\* the record of the call.
Admitted == {c \in 1..Len(calls) : calls[c].run > 0}

\* EvolveSkillHead without the test of the busy flag.
EvolveSkillHeadNoBusyCheck(g, gs, pend, hist, busy) ==
  IF g \notin pend
  THEN [gaps |-> gs, history |-> hist, isEvolving |-> busy,
        call |-> [NewCall(g) EXCEPT !.ret = "throw", !.err = "Gap not found"]]
  ELSE [gaps |-> [gs EXCEPT ![g].status = "generating"],
        history |-> LogEvent(hist, Event("generation_started", "success", g, 0, "")),
        isEvolving |-> TRUE,
        call |-> [NewCall(g) EXCEPT !.pc = "template",
                                    !.run = Cardinality(Admitted) + 1]]

\* EvolveSkillHead treating contention as a failure of the gap.
EvolveSkillHeadBusyFails(g, gs, pend, hist, busy) ==
  IF g \notin pend
  THEN [gaps |-> gs, history |-> hist, isEvolving |-> busy,
        call |-> [NewCall(g) EXCEPT !.ret = "throw", !.err = "Gap not found"]]
  ELSE IF busy
  THEN [gaps |-> [gs EXCEPT ![g].status = "failed"], history |-> hist,
        isEvolving |-> busy,
        call |-> [NewCall(g) EXCEPT !.ret = "null"]]
  ELSE [gaps |-> [gs EXCEPT ![g].status = "generating"],
        history |-> LogEvent(hist, Event("generation_started", "success", g, 0, "")),
        isEvolving |-> TRUE,
        call |-> [NewCall(g) EXCEPT !.pc = "template",
                                    !.run = Cardinality(Admitted) + 1]]

\* EvolveSkillHead with the busy test inside the try block, so that the
\* finally block clears the flag when a call is dropped.
EvolveSkillHeadDropClears(g, gs, pend, hist, busy) ==
  IF g \notin pend
  THEN [gaps |-> gs, history |-> hist, isEvolving |-> busy,
        call |-> [NewCall(g) EXCEPT !.ret = "throw", !.err = "Gap not found"]]
  ELSE IF busy
  THEN [gaps |-> gs, history |-> hist, isEvolving |-> FALSE,
        call |-> [NewCall(g) EXCEPT !.ret = "null"]]
  ELSE [gaps |-> [gs EXCEPT ![g].status = "generating"],
        history |-> LogEvent(hist, Event("generation_started", "success", g, 0, "")),
        isEvolving |-> TRUE,
        call |-> [NewCall(g) EXCEPT !.pc = "template",
                                    !.run = Cardinality(Admitted) + 1]]

EvolveSkillHead(g, gs, pend, hist, busy) ==
  IF g \notin pend
  THEN [gaps |-> gs, history |-> hist, isEvolving |-> busy,
        call |-> [NewCall(g) EXCEPT !.ret = "throw", !.err = "Gap not found"]]
  ELSE IF busy
  THEN [gaps |-> gs, history |-> hist, isEvolving |-> busy,
        call |-> [NewCall(g) EXCEPT !.ret = "null"]]
  ELSE [gaps |-> [gs EXCEPT ![g].status = "generating"],
        history |-> LogEvent(hist, Event("generation_started", "success", g, 0, "")),
        isEvolving |-> TRUE,
        call |-> [NewCall(g) EXCEPT !.pc = "template",
                                    !.run = Cardinality(Admitted) + 1]]

\* evolveSkill(gapId) called by the host, with a pending id or an unknown
\* one (0 stands for an id that was never issued).
EvolveSkill(g) ==
  /\ Len(calls) < MaxCalls
  /\ LET h == EvolveSkillHead(g, gaps, pendingGaps, evolutionHistory, isEvolving)
     IN /\ gaps' = h.gaps
        /\ evolutionHistory' = h.history
        /\ isEvolving' = h.isEvolving
        /\ calls' = Append(calls, h.call)
  /\ UNCHANGED <<config, pendingGaps, skills, repo>>

\* createSkillFromDescription(description)
CreateSkillFromDescription ==
  /\ Len(calls) < MaxCalls
  /\ Len(gaps) < MaxGaps
  /\ LET g == Len(gaps) + 1
         gs == Append(gaps, [status |-> "identified"])
         h == EvolveSkillHead(g, gs, pendingGaps \cup {g}, evolutionHistory, isEvolving)
     IN /\ gaps' = h.gaps
        /\ pendingGaps' = pendingGaps \cup {g}
        /\ evolutionHistory' = h.history
        /\ isEvolving' = h.isEvolving
        /\ calls' = Append(calls, h.call)
  /\ UNCHANGED <<config, skills, repo>>

\* reportFailure(...): needsNewSkill is the outcome of analyzeCapabilityGap
\* (FALSE also for an unparsable answer and a failed completion call).
ReportFailure(needsNewSkill) ==
  /\ Len(calls) < MaxCalls
  /\ Len(gaps) < MaxGaps
  /\ IF ~config.autoEvolve \/ ~needsNewSkill
     THEN UNCHANGED <<gaps, pendingGaps, evolutionHistory, isEvolving, calls>>
     ELSE LET g == Len(gaps) + 1
              gs == Append(gaps, [status |-> "identified"])
              hist == LogEvent(evolutionHistory,
                               Event("gap_identified", "success", g, 0, ""))
              h == EvolveSkillHead(g, gs, pendingGaps \cup {g}, hist, isEvolving)
          IN /\ gaps' = h.gaps
             /\ pendingGaps' = pendingGaps \cup {g}
             /\ evolutionHistory' = h.history
             /\ isEvolving' = h.isEvolving
             /\ calls' = Append(calls, h.call)
  /\ UNCHANGED <<config, skills, repo>>

\* SelfEvolutionEngine.initialize(), which the host calls at start-up, before
\* it uses the engine (a host that skips it is covered by ensureInitialized).
Initialize ==
  /\ ~repo.initialized
  /\ calls = <<>>
  /\ \E initFail \in InitFails :
       LET i == EnsureInitialized(repo, initFail)
       IN /\ repo' = i.r
          /\ evolutionHistory' =
               IF i.err = "" THEN LogEvent(evolutionHistory,
                                    Event("engine_initialized", "success", 0, 0, ""))
               ELSE evolutionHistory
  /\ UNCHANGED <<config, gaps, pendingGaps, isEvolving, calls, skills>>

\* Catch without the assignment of line 193.
CatchKeepsStatus(c, cl, err) ==
  /\ gaps' = gaps
  /\ evolutionHistory' =
       LogEvent(evolutionHistory,
                Event("generation_completed", "failure", calls[c].gap, 0, err))
  /\ isEvolving' = FALSE
  /\ calls' = [calls EXCEPT ![c] =
                 DropLocals([cl EXCEPT !.pc = "done", !.ret = "null", !.err = err])]

\* The catch and finally blocks of evolveSkill (lines 192-204) for call c
\* whose stage threw err, from call record cl.
Catch(c, cl, err) ==
  /\ gaps' = [gaps EXCEPT ![calls[c].gap].status = "failed"]
  /\ evolutionHistory' =
       LogEvent(evolutionHistory,
                Event("generation_completed", "failure", calls[c].gap, 0, err))
  /\ isEvolving' = FALSE
  /\ calls' = [calls EXCEPT ![c] =
                 DropLocals([cl EXCEPT !.pc = "done", !.ret = "null", !.err = err])]

\* generateSkillTemplate resumes: either no document can be extracted from
\* the completion (or the call failed), or raw is the parsed document.
GenerateTemplate(c) ==
  /\ c \in 1..Len(calls)
  /\ calls[c].pc = "template"
  /\ calls[c].run <= MaxRuns
  /\ \/ /\ Catch(c, calls[c], "Error: cannot parse skill template")
        /\ UNCHANGED <<skills, repo, pendingGaps>>
     \/ \E raw \in RawTemplates :
          /\ calls' = [calls EXCEPT ![c].template = NormalizeTemplate(raw),
                                    ![c].pc = "code"]
          /\ UNCHANGED <<gaps, evolutionHistory, isEvolving, skills, repo, pendingGaps>>
  /\ UNCHANGED config

\* The GeneratedSkill object generateSkill builds (lines 321-345)
BuildSkill(id, call) ==
  [id |-> id, template |-> call.template, code |-> call.code,
   iterations |-> call.iterations, validation |-> PendingValidation,
   status |-> "draft"]

\* GenerateCodeStep that throws whenever the loop ends on a text that fails
\* basicSyntaxCheck.
GenerateCodeStepStrict(c, threw, text) ==
  LET cl == [calls[c] EXCEPT
               !.iterations = @ + 1,
               !.code = IF threw THEN @ ELSE text,
               !.lastError = IF threw THEN "Error: cannot parse generated code" ELSE @]
      loopEnds == (~threw /\ BasicSyntaxCheck(text)) \/ ~(cl.iterations < MaxIterations)
      id == Len(skills) + 1
  IN IF ~loopEnds
     THEN /\ calls' = [calls EXCEPT ![c] = cl]
          /\ UNCHANGED <<gaps, evolutionHistory, isEvolving, skills, repo, pendingGaps>>
     ELSE IF ~BasicSyntaxCheck(cl.code)
     THEN /\ Catch(c, cl, IF cl.lastError # "" THEN cl.lastError
                          ELSE "Error: code generation failed")
          /\ UNCHANGED <<skills, repo, pendingGaps>>
     ELSE /\ skills' = Append(skills, BuildSkill(id, cl))
          /\ evolutionHistory' =
               LogEvent(evolutionHistory,
                        Event("validation_started", "success", 0, id, ""))
          /\ calls' = [calls EXCEPT ![c] =
                         DropLocals([cl EXCEPT !.pc = "validate", !.skill = id,
                                               !.nValidate = @ + 1])]
          /\ UNCHANGED <<gaps, isEvolving, repo, pendingGaps>>

\* One pass of the retry loop of generateSkill (lines 301-314) and, when the
\* loop ends, the rest of generateSkill and of evolveSkill up to the await of
\* validate.  threw: generateSkillCode threw; text: the text it returned.
GenerateCodeStep(c, threw, text) ==
  LET cl == [calls[c] EXCEPT
               !.iterations = @ + 1,
               !.code = IF threw THEN @ ELSE text,
               !.lastError = IF threw THEN "Error: cannot parse generated code" ELSE @]
      loopEnds == (~threw /\ BasicSyntaxCheck(text)) \/ ~(cl.iterations < MaxIterations)
      id == Len(skills) + 1
  IN IF ~loopEnds
     THEN /\ calls' = [calls EXCEPT ![c] = cl]
          /\ UNCHANGED <<gaps, evolutionHistory, isEvolving, skills, repo, pendingGaps>>
     ELSE IF cl.code = EmptyText
     THEN /\ Catch(c, cl, IF cl.lastError # "" THEN cl.lastError
                          ELSE "Error: code generation failed")
          /\ UNCHANGED <<skills, repo, pendingGaps>>
     ELSE /\ skills' = Append(skills, BuildSkill(id, cl))
          /\ evolutionHistory' =
               LogEvent(evolutionHistory,
                        Event("validation_started", "success", 0, id, ""))
          /\ calls' = [calls EXCEPT ![c] =
                         DropLocals([cl EXCEPT !.pc = "validate", !.skill = id,
                                               !.nValidate = @ + 1])]
          /\ UNCHANGED <<gaps, isEvolving, repo, pendingGaps>>

\* What generateSkillCode returns when it does not throw: the text of the
\* code block of the completion, which may be empty.
SynthesisTexts == CompletionTexts \cup {EmptyText}

GenerateCode(c) ==
  /\ c \in 1..Len(calls)
  /\ calls[c].pc = "code"
  /\ \/ GenerateCodeStep(c, TRUE, EmptyText)
     \/ \E text \in SynthesisTexts : GenerateCodeStep(c, FALSE, text)
  /\ UNCHANGED config

\* evolveSkill after a validation that passed (lines 175-185), up to the
\* next await: sk is the validated skill.
Passed(c, sk) ==
  LET s == calls[c].skill
      deploy == config.autoApprove \/ ~config.requireReview
  IN /\ evolutionHistory' =
          LogEvent(evolutionHistory, Event("validation_passed", "success", 0, s, ""))
     /\ skills' = [skills EXCEPT ![s] =
                     [sk EXCEPT !.status = IF deploy THEN "deployed" ELSE "validated"]]
     /\ calls' = [calls EXCEPT ![c].pc = IF deploy THEN "deploySave" ELSE "add"]
     /\ UNCHANGED <<gaps, isEvolving, repo, pendingGaps>>

OracleAnswers(skill) == [1..skill.template.testCases -> BOOLEAN]

\* The first validate resumes (lines 147-154).
ValidateFirst(c) ==
  /\ c \in 1..Len(calls)
  /\ calls[c].pc = "validate"
  /\ \E typeAnswer \in TypeAnswers, testAnswers \in OracleAnswers(skills[calls[c].skill]) :
       LET s == calls[c].skill
           sk == Validate(skills[s], config, typeAnswer, testAnswers)
       IN IF sk.validation.status # "passed"
          THEN /\ skills' = [skills EXCEPT ![s] = sk]
               /\ calls' = [calls EXCEPT ![c].pc = "repair", ![c].nRepair = @ + 1]
               /\ UNCHANGED <<gaps, evolutionHistory, isEvolving, repo, pendingGaps>>
          ELSE Passed(c, sk)
  /\ UNCHANGED config

\* repairSkill resumes (skill-generator.ts lines 381-395), then evolveSkill
\* calls validate again (line 157).
Repair(c) ==
  /\ c \in 1..Len(calls)
  /\ calls[c].pc = "repair"
  /\ \/ /\ Catch(c, calls[c], "Error: cannot parse repaired code")
        /\ UNCHANGED <<skills, repo, pendingGaps>>
     \/ \E text \in CompletionTexts :
          /\ skills' = [skills EXCEPT ![calls[c].skill].code = text,
                                      ![calls[c].skill].iterations = @ + 1]
          /\ calls' = [calls EXCEPT ![c].pc = "revalidate", ![c].nValidate = @ + 1]
          /\ UNCHANGED <<gaps, evolutionHistory, isEvolving, repo, pendingGaps>>
  /\ UNCHANGED config

\* RevalidationFailed trying another repair instead of giving up.
RevalidationFailedRetries(c, sk) ==
  /\ skills' = [skills EXCEPT ![calls[c].skill] = sk]
  /\ calls' = [calls EXCEPT ![c].pc = "repair", ![c].nRepair = @ + 1]
  /\ UNCHANGED <<gaps, evolutionHistory, isEvolving, repo, pendingGaps>>

\* evolveSkill when the repaired skill fails validation too (lines 159-170,
\* then the finally block): sk is the skill as validate left it.
RevalidationFailed(c, sk) ==
  /\ skills' = [skills EXCEPT ![calls[c].skill] = sk]
  /\ evolutionHistory' =
       LogEvent(evolutionHistory,
                Event("validation_failed", "failure", 0, calls[c].skill,
                      "still failing after repair"))
  /\ gaps' = [gaps EXCEPT ![calls[c].gap].status = "failed"]
  /\ isEvolving' = FALSE
  /\ calls' = [calls EXCEPT ![c].pc = "done", ![c].ret = "null"]
  /\ UNCHANGED <<repo, pendingGaps>>

\* The second validate resumes (lines 157-173).
Revalidate(c) ==
  /\ c \in 1..Len(calls)
  /\ calls[c].pc = "revalidate"
  /\ \E typeAnswer \in TypeAnswers, testAnswers \in OracleAnswers(skills[calls[c].skill]) :
       LET s == calls[c].skill
           sk == Validate(skills[s], config, typeAnswer, testAnswers)
       IN IF sk.validation.status # "passed"
          THEN RevalidationFailed(c, sk)
          ELSE Passed(c, sk)
  /\ UNCHANGED config

\* deploySkill, first await (lines 211-214): compiler.saveSkill resumes.
DeploySave(c) ==
  /\ c \in 1..Len(calls)
  /\ calls[c].pc = "deploySave"
  /\ \E failAt \in FailPoints(2) :
       LET res == CompilerSaveSkill(repo, skills[calls[c].skill], failAt)
       IN /\ repo' = res.r
          /\ IF res.err # ""
             THEN /\ Catch(c, calls[c], res.err)
                  /\ UNCHANGED <<skills, pendingGaps>>
             ELSE /\ calls' = [calls EXCEPT ![c].pc = "deployUpdate"]
                  /\ UNCHANGED <<gaps, evolutionHistory, isEvolving, skills, pendingGaps>>
  /\ UNCHANGED config

\* deploySkill, second await (lines 217-227) and evolveSkill line 180:
\* repository.updateEntry resumes.
DeployUpdate(c) ==
  /\ c \in 1..Len(calls)
  /\ calls[c].pc = "deployUpdate"
  /\ \E initFail \in InitFails, failAt \in FailPoints(1) :
       LET s == calls[c].skill
           paths == CompilerSaveSkill(repo, skills[s], 0).paths
           res == RepositoryUpdateEntry(repo, s, paths, initFail, failAt)
       IN /\ repo' = res.r
          /\ IF res.err # ""
             THEN /\ Catch(c, calls[c], res.err)
                  /\ UNCHANGED <<skills, pendingGaps>>
             ELSE /\ evolutionHistory' =
                       LogEvent(evolutionHistory,
                                Event("skill_deployed", "success", 0, s, ""))
                  /\ gaps' = [gaps EXCEPT ![calls[c].gap].status = "resolved"]
                  /\ calls' = [calls EXCEPT ![c].pc = "add"]
                  /\ UNCHANGED <<isEvolving, skills, pendingGaps>>
  /\ UNCHANGED config

\* repository.add resumes (lines 188-191), then the finally block.
Add(c) ==
  /\ c \in 1..Len(calls)
  /\ calls[c].pc = "add"
  /\ \E initFail \in InitFails, failAt \in FailPoints(3) :
       LET res == RepositoryAdd(repo, skills[calls[c].skill], initFail, failAt)
       IN /\ repo' = res.r
          /\ IF res.err # ""
             THEN /\ Catch(c, calls[c], res.err)
                  /\ UNCHANGED <<skills, pendingGaps>>
             ELSE /\ pendingGaps' = pendingGaps \ {calls[c].gap}
                  /\ isEvolving' = FALSE
                  /\ calls' = [calls EXCEPT ![c].pc = "done", ![c].ret = "skill"]
                  /\ UNCHANGED <<gaps, evolutionHistory, skills>>
  /\ UNCHANGED config

Next ==
  \/ \E g \in 0..Len(gaps) : EvolveSkill(g)
  \/ CreateSkillFromDescription
  \/ \E needsNewSkill \in BOOLEAN : ReportFailure(needsNewSkill)
  \/ Initialize
  \/ \E c \in 1..MaxCalls : GenerateTemplate(c)
  \/ \E c \in 1..MaxCalls : GenerateCode(c)
  \/ \E c \in 1..MaxCalls : ValidateFirst(c)
  \/ \E c \in 1..MaxCalls : Repair(c)
  \/ \E c \in 1..MaxCalls : Revalidate(c)
  \/ \E c \in 1..MaxCalls : DeploySave(c)
  \/ \E c \in 1..MaxCalls : DeployUpdate(c)
  \/ \E c \in 1..MaxCalls : Add(c)

Spec == Init /\ [][Next]_vars

\* ------------------------------------------------- the validator on its own
\* SkillValidator driven directly by a host: validate is called on a skill as
\* generateSkill builds it, repairSkill may replace the code of a skill that
\* failed, and validate is called again.  Here calls is the list of validate
\* invocations: the text each was given and the oracle's answers in it.
ValidatorConfigs ==
  {[ConfigWith(TRUE, FALSE, rr) EXCEPT !.typeCheck = tc, !.securityReview = sr,
                                       !.runTests = rt] :
     rr \in BOOLEAN, tc \in BOOLEAN, sr \in BOOLEAN, rt \in BOOLEAN}

ValidatorTexts == {GoodText, NoExportText, UnbalancedText, EvalText,
                   EvalNoExportText, FetchSpawnText}

ValidatorTemplates == {NormalizeTemplate(t) : t \in {RawPlain, RawPartial, RawTested}}

\* runTests answers for the validator on its own: the first k test cases pass
\* (the gate looks at the pass ratio only)
ValidatorAnswers(skill) ==
  {[i \in 1..skill.template.testCases |-> i <= k] : k \in 0..skill.template.testCases}

ValidatorInit ==
  /\ config \in ValidatorConfigs
  /\ \E text \in ValidatorTexts, t \in ValidatorTemplates :
       skills = <<BuildSkill(1, [template |-> t, code |-> text, iterations |-> 1])>>
  /\ calls = <<>>
  /\ gaps = <<>>
  /\ pendingGaps = {}
  /\ isEvolving = FALSE
  /\ evolutionHistory = <<>>
  /\ repo = [initialized |-> FALSE, index |-> <<>>,
             diskIndex |-> [exists |-> FALSE, complete |-> FALSE, skills |-> <<>>],
             files |-> <<>>]

\* validate(skill)
ValidateCall ==
  /\ Len(calls) < MaxValidations
  /\ \E typeAnswer \in TypeAnswers, testAnswers \in ValidatorAnswers(skills[1]) :
       /\ skills' = <<Validate(skills[1], config, typeAnswer, testAnswers)>>
       /\ calls' = Append(calls, [code |-> skills[1].code, typeAnswer |-> typeAnswer,
                                  testAnswers |-> testAnswers])
  /\ UNCHANGED <<config, gaps, pendingGaps, isEvolving, evolutionHistory, repo>>

\* repairSkill(skill, errors) on a skill that failed validation
RepairCall ==
  /\ Len(calls) < MaxValidations
  /\ skills[1].validation.status = "failed"
  /\ skills[1].iterations = 1
  /\ \E text \in ValidatorTexts :
       skills' = <<[skills[1] EXCEPT !.code = text, !.iterations = @ + 1]>>
  /\ UNCHANGED <<config, gaps, pendingGaps, isEvolving, evolutionHistory, calls, repo>>

ValidatorNext == ValidateCall \/ RepairCall

ValidatorSpec == ValidatorInit /\ [][ValidatorNext]_vars

\* ------------------------------------------------ the repository on its own
\* SkillRepository driven directly by a host.  Here calls holds the record of
\* the repository call made last: its name, its arguments, the error it threw
\* ("" when none) and whether the process died inside its saveIndex write.
RepoSkillIds == {1}
RepoTemplates == {NormalizeTemplate(RawPlain), NormalizeTemplate(RawPrefixed)}
RepoSkill(id, t, code) ==
  [BuildSkill(id, [template |-> t, code |-> code, iterations |-> 1])
     EXCEPT !.status = "validated"]

\* Partial<SkillRepositoryEntry> values given to updateEntry: what deploySkill
\* passes, and a switch of currentVersion back to the first release.
EntryUpdates ==
  {[paths |-> [markdownPath |-> <<"root", <<"c", "s", "v">>, "md">>,
               typescriptPath |-> <<"root", <<"c", "s", "v">>, "ts">>],
    enabled |-> TRUE, loadState |-> "unloaded"],
   [currentVersion |-> <<"1", "0", "0">>]}

\* RepositoryIndex.skills values given to import: an entry as another
\* repository exports it, or with an empty version list.
ForeignEntry(id, versions) ==
  [CreateEntry(RepoSkill(id, NormalizeTemplate(RawPlain), EvalText))
     EXCEPT !.versions = versions]
ImportData ==
  {(1 :> ForeignEntry(1, vs)) :
     vs \in {<<[version |-> <<"1", "0", "0">>, hash |-> HashCode(EvalText)]>>, <<>>}}

\* How the saveIndex write that ends a call turns out: it succeeds, or the
\* process dies while fs.writeFile is writing.
Outcomes == {"ok", "crash"}

\* The state a new process finds after the old one died inside the write of
\* the index file: fs.writeFile had truncated the file and written part of
\* the text.
CrashedInSaveIndex(r) ==
  [initialized |-> FALSE, index |-> <<>>,
   diskIndex |-> [exists |-> TRUE, complete |-> FALSE, skills |-> <<>>],
   files |-> r.files]

\* The end of a repository call whose result, when the process lives, is
\* done: the repository the call leaves and the record of the call.
RepoCallEnds(op, id, arg, out, done) ==
  LET dies == out = "crash" /\ done.err = ""
  IN [repo |-> IF dies THEN CrashedInSaveIndex(done.r) ELSE done.r,
      call |-> [op |-> op, id |-> id, arg |-> arg,
                err |-> IF dies THEN "" ELSE done.err, crashed |-> dies]]

RepoInit ==
  /\ config = ConfigWith(TRUE, FALSE, TRUE)
  /\ gaps = <<>>
  /\ pendingGaps = {}
  /\ isEvolving = FALSE
  /\ evolutionHistory = <<>>
  /\ calls = <<>>
  /\ skills = <<>>
  /\ repo = [initialized |-> FALSE, index |-> <<>>,
             diskIndex |-> [exists |-> FALSE, complete |-> FALSE, skills |-> <<>>],
             files |-> <<>>]

RepoAdd ==
  \E id \in RepoSkillIds, t \in RepoTemplates, out \in Outcomes :
    LET sk == RepoSkill(id, t, GoodText)
        e == RepoCallEnds("add", id, t.version, out,
                          RepositoryAdd(repo, sk, FALSE, 0))
    IN /\ repo' = e.repo
       /\ calls' = <<e.call>>
       /\ UNCHANGED <<config, gaps, pendingGaps, isEvolving, evolutionHistory, skills>>

RepoUpdateSkill ==
  \E id \in RepoSkillIds, code \in {GoodText, EvalText}, out \in Outcomes :
    LET sk == RepoSkill(id, NormalizeTemplate(RawPlain), code)
        e == RepoCallEnds("updateSkill", id, code, out,
                          RepositoryUpdateSkill(repo, id, sk, FALSE, 0))
        index == EnsureInitialized(repo, FALSE).r.index
    IN /\ id \in DOMAIN index =>
            LET v == index[id].currentVersion
            IN /\ Len(index[id].versions) < MaxVersions
               /\ Len(v) >= 3 /\ IsNumeral(v[3]) => NumberOf(v[3]) < MaxPatch
       /\ repo' = e.repo
       /\ calls' = <<e.call>>
       /\ UNCHANGED <<config, gaps, pendingGaps, isEvolving, evolutionHistory, skills>>

RepoUpdateEntry ==
  \E id \in RepoSkillIds, updates \in EntryUpdates, out \in Outcomes :
    LET e == RepoCallEnds("updateEntry", id, updates, out,
                          UpdateEntry(repo, id, updates, FALSE, 0))
    IN /\ repo' = e.repo
       /\ calls' = <<e.call>>
       /\ UNCHANGED <<config, gaps, pendingGaps, isEvolving, evolutionHistory, skills>>

RepoDeprecate ==
  \E id \in RepoSkillIds, out \in Outcomes :
    LET e == RepoCallEnds("deprecate", id, 0, out,
                          RepositoryDeprecate(repo, id, FALSE, 0))
    IN /\ repo' = e.repo
       /\ calls' = <<e.call>>
       /\ UNCHANGED <<config, gaps, pendingGaps, isEvolving, evolutionHistory, skills>>

RepoCleanupOldVersions ==
  \E keepVersions \in 0..MaxKeep, out \in Outcomes :
    LET e == RepoCallEnds("cleanupOldVersions", 0, keepVersions, out,
                          RepositoryCleanupOldVersions(repo, keepVersions, FALSE, 0))
    IN /\ repo' = e.repo
       /\ calls' = <<e.call>>
       /\ UNCHANGED <<config, gaps, pendingGaps, isEvolving, evolutionHistory, skills>>

RepoImport ==
  \E data \in ImportData, out \in Outcomes :
    LET e == RepoCallEnds("import", 0, data, out,
                          RepositoryImport(repo, data, FALSE, 0))
    IN /\ repo' = e.repo
       /\ calls' = <<e.call>>
       /\ UNCHANGED <<config, gaps, pendingGaps, isEvolving, evolutionHistory, skills>>

RepoRemove ==
  \E id \in RepoSkillIds, out \in Outcomes :
    LET e == RepoCallEnds("remove", id, 0, out,
                          RepositoryRemove(repo, id, FALSE, 0))
    IN /\ out = "crash" => id \in DOMAIN EnsureInitialized(repo, FALSE).r.index
       /\ repo' = e.repo
       /\ calls' = <<e.call>>
       /\ UNCHANGED <<config, gaps, pendingGaps, isEvolving, evolutionHistory, skills>>

\* The process ends between two calls and a new one constructs the repository.
RepoRestart ==
  /\ repo.initialized
  /\ repo' = [repo EXCEPT !.initialized = FALSE, !.index = <<>>]
  /\ calls' = <<[op |-> "restart", id |-> 0, arg |-> 0, err |-> "", crashed |-> FALSE]>>
  /\ UNCHANGED <<config, gaps, pendingGaps, isEvolving, evolutionHistory, skills>>

RepoNext ==
  \/ RepoAdd
  \/ RepoUpdateSkill
  \/ RepoUpdateEntry
  \/ RepoDeprecate
  \/ RepoCleanupOldVersions
  \/ RepoImport
  \/ RepoRemove
  \/ RepoRestart

RepoSpec == RepoInit /\ [][RepoNext]_vars

\* ------------------------------------------------ the event log on its own
\* An engine whose generator throws: every evolveSkill logs generation_started
\* and then, from its catch branch, generation_completed with the failure.
\* In this specification calls is what a listener of 'evolution-event' has
\* received: every event emitted so far, in emission order.
EmittedEvent(i) ==
  IF i % 2 = 1
  THEN Event("generation_started", "success", (i + 1) \div 2, 0, "")
  ELSE Event("generation_completed", "failure", (i + 1) \div 2, 0, FsError)

\* The run starts with a new engine, or with one that has logged
\* LoggedBefore events and has not reached the ceiling yet.
LogInit ==
  /\ config = ConfigWith(TRUE, FALSE, TRUE)
  /\ gaps = <<>>
  /\ pendingGaps = {}
  /\ isEvolving = FALSE
  /\ calls \in {[i \in 1..n |-> EmittedEvent(i)] : n \in {0, LoggedBefore}}
  /\ evolutionHistory = calls
  /\ skills = <<>>
  /\ repo = [initialized |-> FALSE, index |-> <<>>,
             diskIndex |-> [exists |-> FALSE, complete |-> FALSE, skills |-> <<>>],
             files |-> <<>>]

LogEmit ==
  /\ Len(calls) < MaxEmitted
  /\ LET event == EmittedEvent(Len(calls) + 1)
     IN /\ evolutionHistory' = LogEvent(evolutionHistory, event)
        /\ calls' = Append(calls, event)
  /\ UNCHANGED <<config, gaps, pendingGaps, isEvolving, skills, repo>>

LogNext == LogEmit

LogSpec == LogInit /\ [][LogNext]_vars

\* ------------------------------------------- failure reports on their own
\* The host reports failures to an engine whose generator throws, so every
\* pipeline a report starts ends in the catch branch.  In this specification
\* calls is the list of reportFailure invocations: the answer the capability
\* analysis got from the completion call, what reportFailure returned (ret:
\* "null" or "gap"), the gap it created (0 when none) and the rank of the
\* pipeline it started among those started so far (run, 0 when none).
AnalysisAnswers == {"throws", "noJsonBlock", "badJson", "negative", "positive"}

\* analyzeCapabilityGap taking every answer with a JSON block for a positive one
AnalyzeCapabilityGapLenient(answer) ==
  IF answer = "throws" THEN "null"
  ELSE IF answer = "noJsonBlock" THEN "null"
  ELSE "gap"

\* SkillGenerator.analyzeCapabilityGap: "gap" when it returns a new gap
AnalyzeCapabilityGap(answer) ==
  IF answer = "throws" THEN "null"
  ELSE IF answer = "noJsonBlock" THEN "null"
  ELSE IF answer = "badJson" THEN "null"
  ELSE IF answer = "negative" THEN "null"
  ELSE "gap"

\* reportFailure from the given engine state, up to its return
ReportFailureOutcome(cfg, answer, gs, pend, hist, busy) ==
  IF ~cfg.autoEvolve \/ AnalyzeCapabilityGap(answer) = "null"
  THEN [gaps |-> gs, pendingGaps |-> pend, history |-> hist, isEvolving |-> busy,
        call |-> [answer |-> answer, ret |-> "null", gap |-> 0, run |-> 0]]
  ELSE LET g == Len(gs) + 1
           h == EvolveSkillHead(g, Append(gs, [status |-> "identified"]),
                                pend \cup {g},
                                LogEvent(hist, Event("gap_identified", "success", g, 0, "")),
                                busy)
       IN [gaps |-> h.gaps, pendingGaps |-> pend \cup {g}, history |-> h.history,
           isEvolving |-> h.isEvolving,
           call |-> [answer |-> answer, ret |-> "gap", gap |-> g, run |-> h.call.run]]

ReportInit ==
  /\ config \in {ConfigWith(TRUE, FALSE, TRUE), ConfigWith(FALSE, FALSE, TRUE)}
  /\ gaps = <<>>
  /\ pendingGaps = {}
  /\ isEvolving = FALSE
  /\ evolutionHistory = <<>>
  /\ calls = <<>>
  /\ skills = <<>>
  /\ repo = [initialized |-> FALSE, index |-> <<>>,
             diskIndex |-> [exists |-> FALSE, complete |-> FALSE, skills |-> <<>>],
             files |-> <<>>]

Report ==
  /\ Len(calls) < MaxReports
  /\ Len(gaps) < MaxGaps
  /\ \E answer \in AnalysisAnswers :
       LET o == ReportFailureOutcome(config, answer, gaps, pendingGaps,
                                     evolutionHistory, isEvolving)
       IN /\ gaps' = o.gaps
          /\ pendingGaps' = o.pendingGaps
          /\ evolutionHistory' = o.history
          /\ isEvolving' = o.isEvolving
          /\ calls' = Append(calls, o.call)
  /\ UNCHANGED <<config, skills, repo>>

\* The pipeline in progress fails in generateSkill: the catch and finally
\* blocks of evolveSkill.
ReportedRunFails ==
  /\ isEvolving
  /\ \E g \in pendingGaps :
       /\ gaps[g].status = "generating"
       /\ gaps' = [gaps EXCEPT ![g].status = "failed"]
       /\ evolutionHistory' =
            LogEvent(evolutionHistory,
                     Event("generation_completed", "failure", g, 0,
                           "Error: cannot parse skill template"))
  /\ isEvolving' = FALSE
  /\ UNCHANGED <<config, pendingGaps, calls, skills, repo>>

ReportNext == Report \/ ReportedRunFails

ReportSpec == ReportInit /\ [][ReportNext]_vars

\* ------------------------------------------ usage statistics on their own
\* A host adds a skill and reports executions of it, and of a skill the
\* repository does not hold.  In this specification calls is the list of
\* recordExecution invocations: the id, the outcome and the elapsed time
\* given, and whether the index held the id (found).
StatsSkillIds == {1, 2}
ExecutionTimes == {1, 2, 3}

StatsInit ==
  /\ config = ConfigWith(TRUE, FALSE, TRUE)
  /\ gaps = <<>>
  /\ pendingGaps = {}
  /\ isEvolving = FALSE
  /\ evolutionHistory = <<>>
  /\ calls = <<>>
  /\ skills = <<>>
  /\ repo = [initialized |-> FALSE, index |-> <<>>,
             diskIndex |-> [exists |-> FALSE, complete |-> FALSE, skills |-> <<>>],
             files |-> <<>>]

\* add(skill) for the skill with id 1, once
StatsAdd ==
  /\ 1 \notin DOMAIN repo.index
  /\ repo' = RepositoryAdd(repo, RepoSkill(1, NormalizeTemplate(RawPlain), GoodText),
                           FALSE, 0).r
  /\ UNCHANGED <<config, gaps, pendingGaps, isEvolving, evolutionHistory, calls, skills>>

StatsRecord ==
  /\ Len(calls) < MaxExecutions
  /\ \E id \in StatsSkillIds, success \in BOOLEAN, executionTime \in ExecutionTimes :
       /\ repo' = RecordExecution(repo, id, success, executionTime)
       /\ calls' = Append(calls, [id |-> id, success |-> success,
                                  time |-> executionTime,
                                  found |-> id \in DOMAIN repo.index])
  /\ UNCHANGED <<config, gaps, pendingGaps, isEvolving, evolutionHistory, skills>>

StatsNext == StatsAdd \/ StatsRecord

StatsSpec == StatsInit /\ [][StatsNext]_vars

\* ------------------------------------- two skills and their source files
\* A repository that holds up to two skills, whose names a host chooses: two
\* of the names differ and sanitize to the same slug.  No write fails, and
\* updateSkill is given the skill under the name it was added with.  Here
\* calls holds the record of the call made last.
SlugSkillIds == {1, 2}
SlugNames == {<<"C", "s", "v">>, <<"c", "s", "v", "!">>, <<"a", "b">>}
SlugCodes == {GoodText, EvalText}
SlugSkill(id, name, code) ==
  RepoSkill(id, [NormalizeTemplate(RawPlain) EXCEPT !.name = name], code)

SlugInit ==
  /\ config = ConfigWith(TRUE, FALSE, TRUE)
  /\ gaps = <<>>
  /\ pendingGaps = {}
  /\ isEvolving = FALSE
  /\ evolutionHistory = <<>>
  /\ calls = <<>>
  /\ skills = <<>>
  /\ repo = [initialized |-> FALSE, index |-> <<>>,
             diskIndex |-> [exists |-> FALSE, complete |-> FALSE, skills |-> <<>>],
             files |-> <<>>]

SlugAdd ==
  \E id \in SlugSkillIds, name \in SlugNames, code \in SlugCodes :
    LET done == RepositoryAdd(repo, SlugSkill(id, name, code), FALSE, 0)
    IN /\ repo' = done.r
       /\ calls' = <<[op |-> "add", id |-> id, name |-> name, code |-> code,
                      err |-> done.err]>>
       /\ UNCHANGED <<config, gaps, pendingGaps, isEvolving, evolutionHistory, skills>>

SlugUpdateSkill ==
  \E id \in SlugSkillIds, code \in SlugCodes :
    LET index == EnsureInitialized(repo, FALSE).r.index
        name == index[id].template.name
        done == RepositoryUpdateSkill(repo, id, SlugSkill(id, name, code), FALSE, 0)
    IN /\ id \in DOMAIN index
       /\ Len(index[id].versions) < MaxVersions
       /\ NumberOf(index[id].currentVersion[3]) < MaxPatch
       /\ repo' = done.r
       /\ calls' = <<[op |-> "updateSkill", id |-> id, name |-> name, code |-> code,
                      err |-> done.err]>>
       /\ UNCHANGED <<config, gaps, pendingGaps, isEvolving, evolutionHistory, skills>>

SlugNext == SlugAdd \/ SlugUpdateSkill

SlugSpec == SlugInit /\ [][SlugNext]_vars

\* ------------------------------------------- a repository whose disk fails
\* add and updateSkill for one skill, on a disk where any one of the three
\* writes of a call may fail.  calls holds the record of the call made last.
FaultTemplates == {NormalizeTemplate(RawPlain)}
FaultInit ==
  /\ config = ConfigWith(TRUE, FALSE, TRUE)
  /\ gaps = <<>>
  /\ pendingGaps = {}
  /\ isEvolving = FALSE
  /\ evolutionHistory = <<>>
  /\ calls = <<>>
  /\ skills = <<>>
  /\ repo = [initialized |-> FALSE, index |-> <<>>,
             diskIndex |-> [exists |-> FALSE, complete |-> FALSE, skills |-> <<>>],
             files |-> <<>>]

FaultAdd ==
  \E t \in FaultTemplates, code \in SlugCodes, failAt \in FailPoints(3) :
    LET done == RepositoryAdd(repo, RepoSkill(1, t, code), FALSE, failAt)
    IN /\ repo' = done.r
       /\ calls' = <<[op |-> "add", code |-> code, failAt |-> failAt,
                      err |-> done.err]>>
       /\ UNCHANGED <<config, gaps, pendingGaps, isEvolving, evolutionHistory, skills>>

FaultUpdateSkill ==
  \E code \in SlugCodes, failAt \in FailPoints(3) :
    LET done == RepositoryUpdateSkill(repo, 1, RepoSkill(1, NormalizeTemplate(RawPlain), code),
                                      FALSE, failAt)
        index == EnsureInitialized(repo, FALSE).r.index
    IN /\ 1 \in DOMAIN index
       /\ Len(index[1].versions) < MaxVersions
       /\ LET v == index[1].currentVersion
          IN Len(v) >= 3 /\ IsNumeral(v[3]) => NumberOf(v[3]) < MaxPatch
       /\ repo' = done.r
       /\ calls' = <<[op |-> "updateSkill", code |-> code, failAt |-> failAt,
                      err |-> done.err]>>
       /\ UNCHANGED <<config, gaps, pendingGaps, isEvolving, evolutionHistory, skills>>

FaultNext == FaultAdd \/ FaultUpdateSkill

FaultSpec == FaultInit /\ [][FaultNext]_vars

\* ---------------------------------------------------------------- claims
CallIds == 1..Len(calls)
SkillIds == 1..Len(skills)
GapIds == 1..Len(gaps)

\* The step is a new evolveSkill invocation for a gap the engine holds, made
\* while the busy flag is set.
CalledWhileBusy ==
  /\ Len(calls') = Len(calls) + 1
  /\ isEvolving
  /\ calls'[Len(calls')].gap \in pendingGaps'

\* C1: at most one pipeline is in progress at any time; an evolveSkill call
\* made while a pipeline runs returns null at once and runs no stage, and the
\* pipeline in progress is not disturbed.
MutualExclusion ==
  /\ [](Cardinality(Running) <= 1 /\ (isEvolving <=> Running # {}))
  /\ [][CalledWhileBusy =>
          LET n == Len(calls')
          IN /\ calls'[n].pc = "done"
             /\ calls'[n].ret = "null"
             /\ calls'[n].skill = 0
             /\ calls'[n].nValidate = 0
             /\ calls'[n].nRepair = 0
             /\ SubSeq(calls', 1, Len(calls)) = calls
             /\ skills' = skills
             /\ repo' = repo]_vars

\* C1 witness: one call is inside the pipeline and another has been dropped.
MutualExclusionWitness ==
  \E c, d \in CallIds :
    /\ calls[c].pc \notin {"done", "template"}
    /\ d > c
    /\ calls[d].pc = "done" /\ calls[d].ret = "null" /\ calls[d].run = 0
    /\ calls[d].gap \in pendingGaps

\* C2: evolveSkill(B) called while a pipeline runs returns null and leaves gap
\* B as it was: same status ('identified' for a gap the same call created),
\* still pending, and no pipeline event logged for it.
BusyDropLeavesGap ==
  [][CalledWhileBusy =>
       LET n == Len(calls')
           g == calls'[n].gap
       IN /\ calls'[n].ret = "null"
          /\ g \in pendingGaps'
          /\ gaps'[g].status = IF g \in GapIds THEN gaps[g].status ELSE "identified"
          /\ \A h \in GapIds : gaps'[h] = gaps[h]
          /\ pendingGaps' \ {g} = pendingGaps \ {g}
          /\ \A i \in (Len(evolutionHistory) + 1)..Len(evolutionHistory') :
               evolutionHistory'[i].type = "gap_identified"
          /\ g \in GapIds => evolutionHistory' = evolutionHistory]_vars

\* C2 witness: gap B was dropped while the pipeline of another gap A runs.
BusyDropWitness ==
  \E c, d \in CallIds :
    /\ calls[c].pc # "done"
    /\ calls[d].pc = "done" /\ calls[d].ret = "null" /\ calls[d].run = 0
    /\ calls[d].gap # calls[c].gap
    /\ calls[d].gap \in pendingGaps
    /\ gaps[calls[d].gap].status = "identified"

\* C3: a run makes at most one repair and at most two validations; the repair
\* raises the skill's iteration count by exactly one; when the second
\* validation fails the run ends there, after one repair and two
\* validations, with the gap 'failed' and null returned; a finished call
\* does nothing more.
BoundedRepair ==
  /\ [](\A c \in CallIds : calls[c].nRepair <= 1 /\ calls[c].nValidate <= 2)
  /\ [][\A c \in CallIds :
          LET s == calls[c].skill
          IN /\ (calls[c].pc = "repair" /\ calls'[c].pc # "repair"
                   /\ calls'[c].err = "") =>
                  /\ calls'[c].pc = "revalidate"
                  /\ calls'[c].nValidate = 2
                  /\ skills'[s].iterations = skills[s].iterations + 1
             /\ (calls[c].pc = "revalidate" /\ calls'[c].pc # "revalidate"
                   /\ skills'[s].validation.status # "passed") =>
                  /\ calls'[c].pc = "done"
                  /\ calls'[c].ret = "null"
                  /\ calls'[c].nRepair = 1
                  /\ calls'[c].nValidate = 2
                  /\ gaps'[calls[c].gap].status = "failed"
                  /\ ~isEvolving'
             /\ calls[c].pc = "done" => calls'[c] = calls[c]]_vars

\* C3 witness: a run ended after its repaired skill failed validation again.
BoundedRepairWitness ==
  \E c \in CallIds :
    /\ calls[c].pc = "done" /\ calls[c].ret = "null" /\ calls[c].err = ""
    /\ calls[c].nRepair = 1 /\ calls[c].nValidate = 2
    /\ skills[calls[c].skill].validation.status = "failed"
    /\ skills[calls[c].skill].iterations >= 2
    /\ gaps[calls[c].gap].status = "failed"

\* C4 (as claimed): no evolveSkill or createSkillFromDescription call ends by
\* throwing, whatever its argument.
NeverThrows == \A c \in CallIds : calls[c].ret # "throw"

\* C5: when a stage of a running pipeline throws, the run ends in that step
\* with the gap 'failed', exactly one event appended, of result 'failure' and
\* carrying the error text, null returned and the busy flag released.
StageErrorIsCaught ==
  [][\A c \in CallIds :
       (calls[c].pc # "done" /\ calls'[c].err # "") =>
         /\ calls'[c].pc = "done"
         /\ calls'[c].ret = "null"
         /\ gaps'[calls[c].gap].status = "failed"
         /\ evolutionHistory' = LogEvent(evolutionHistory, Last(evolutionHistory'))
         /\ Last(evolutionHistory').result = "failure"
         /\ Last(evolutionHistory').error = calls'[c].err
         /\ Last(evolutionHistory').error # ""
         /\ ~isEvolving']_vars

\* C5 witness: a run ended by an exception of the deployment stage.
StageErrorWitness ==
  \E c \in CallIds :
    /\ calls[c].pc = "done" /\ calls[c].run > 0
    /\ calls[c].err = "Skill not found"
    /\ gaps[calls[c].gap].status = "failed"
    /\ Last(evolutionHistory).result = "failure"

\* A finished run whose skill passed validation and in which no filesystem
\* call failed.
PassedRun(c) ==
  /\ calls[c].pc = "done"
  /\ calls[c].skill # 0
  /\ skills[calls[c].skill].validation.status = "passed"
  /\ calls[c].err # FsError

\* C6 (as claimed): a run whose validation passed ends with the artifact in
\* the repository and the gap 'resolved'.
PassedEndsStoredAndResolved ==
  \A c \in CallIds :
    PassedRun(c) =>
      /\ calls[c].skill \in DOMAIN repo.index
      /\ gaps[calls[c].gap].status = "resolved"

CountDeployed(s) ==
  Cardinality({i \in 1..Len(evolutionHistory) :
                 /\ evolutionHistory[i].type = "skill_deployed"
                 /\ evolutionHistory[i].skill = s})

\* C7 (as claimed): with auto-approve, a run whose first validation passed
\* ends with a repository entry at the specification's version, enabled, and
\* exactly one skill_deployed event.
HappyPathDeploys ==
  \A c \in CallIds :
    (config.autoApprove /\ PassedRun(c) /\ calls[c].nValidate = 1) =>
      /\ calls[c].skill \in DOMAIN repo.index
      /\ repo.index[calls[c].skill].currentVersion
           = skills[calls[c].skill].template.version
      /\ repo.index[calls[c].skill].enabled
      /\ CountDeployed(calls[c].skill) = 1

\* C8 (as claimed): the artifact is written to the repository before it is
\* marked deployed and before its entry is enabled.
StoredBeforeDeployed ==
  \A s \in SkillIds : skills[s].status = "deployed" => s \in DOMAIN repo.index

\* C9 (as claimed): with security.requireReview no run marks an artifact
\* 'deployed' or leaves its entry enabled.
ReviewRequiredNeverDeploys ==
  config.requireReview =>
    /\ \A s \in SkillIds : skills[s].status # "deployed"
    /\ \A id \in DOMAIN repo.index : ~repo.index[id].enabled

\* C9 (amended): with security.requireReview and without
\* deployment.autoApprove no run marks an artifact 'deployed' or leaves its
\* entry enabled; a run that returns its skill has stored it 'validated' with
\* enabled = false.
ReviewWithoutAutoApproveNeverDeploys ==
  (config.requireReview /\ ~config.autoApprove) =>
    /\ \A s \in SkillIds : skills[s].status # "deployed"
    /\ \A id \in DOMAIN repo.index : ~repo.index[id].enabled
    /\ \A c \in CallIds :
         calls[c].ret = "skill" =>
           /\ skills[calls[c].skill].status = "validated"
           /\ calls[c].skill \in DOMAIN repo.index

\* C9 witness: under review a validated skill was stored, not enabled.
ReviewWitness ==
  /\ config.requireReview /\ ~config.autoApprove
  /\ \E c \in CallIds :
       /\ calls[c].ret = "skill"
       /\ calls[c].skill \in DOMAIN repo.index
       /\ ~repo.index[calls[c].skill].enabled
       /\ skills[calls[c].skill].status = "validated"

\* C10 (as claimed): a gap whose status is 'resolved' or 'failed' never
\* changes status again.
TerminalGapImmutable ==
  [][\A g \in GapIds :
       gaps[g].status \in {"resolved", "failed"} => gaps'[g].status = gaps[g].status]_vars

\* C11 (as claimed): once a validate call has failed at the syntax gate, the
\* skill's validation record holds no security risk and no test result, also
\* when that call re-validated a repaired skill.
SyntaxFailureLeavesNoResults ==
  \A s \in SkillIds :
    (skills[s].validation.status = "failed" /\ ~skills[s].validation.syntaxValid) =>
      /\ skills[s].validation.securityReview.risks = <<>>
      /\ skills[s].validation.testResults = <<>>

\* The last validate call reached the security review: the syntax and type
\* gates passed in it and the review is switched on.
ReviewRan ==
  /\ calls # <<>>
  /\ skills[1].validation.syntaxValid
  /\ skills[1].validation.typeCheckPassed
  /\ config.securityReview

UnauthorizedPermission(skill) ==
  \E i \in 1..Len(skill.template.permissions) :
    skill.template.permissions[i] \notin AllowedPermissions

\* C12: a security review passes exactly when its risk list holds no
\* 'critical' risk and (no 'high' risk or requireReview is off); a permission
\* outside allowedPermissions gives a 'high' risk of category
\* unauthorized-permission and, with requireReview on, a failed gate and a
\* failed validation.
SecurityGateRule ==
  ReviewRan =>
    LET v == skills[1].validation
        r == v.securityReview
    IN /\ r.passed <=> /\ \A i \in 1..Len(r.risks) : r.risks[i].severity # "critical"
                       /\ \/ \A i \in 1..Len(r.risks) : r.risks[i].severity # "high"
                          \/ ~config.requireReview
       /\ UnauthorizedPermission(skills[1]) =>
            /\ \E i \in 1..Len(r.risks) :
                 r.risks[i] = [severity |-> "high", category |-> "unauthorized-permission"]
            /\ config.requireReview => (~r.passed /\ v.status = "failed")

\* C12 witness: a review with a 'high' risk and no 'critical' one passed
\* because requireReview is off.
SecurityGateWitness ==
  /\ ReviewRan
  /\ ~config.requireReview
  /\ UnauthorizedPermission(skills[1])
  /\ skills[1].validation.securityReview.passed
  /\ HasSeverity(skills[1].validation.securityReview.risks, "high")

\* The text matches one of the configured blockedPatterns.
Denylisted(code) ==
  \E i \in 1..Len(BlockedPatterns) : BlockedPatternMatches(BlockedPatterns[i], code)

\* C13 (as claimed): after validate on a text with a denylisted construct the
\* security review holds a 'critical' risk and has passed = false, whatever
\* the other gates did.
DenylistedAlwaysCritical ==
  (calls # <<>> /\ Denylisted(Last(calls).code)) =>
    /\ HasSeverity(skills[1].validation.securityReview.risks, "critical")
    /\ ~skills[1].validation.securityReview.passed

\* C13 (amended): a validate call on a text with a denylisted construct that
\* reaches the security review leaves a review with a 'critical'
\* blocked-pattern risk and passed = false, whatever requireReview and the
\* test answers are; and with the review switched on no such call ends
\* 'passed'.
DenylistedFailsReview ==
  (calls # <<>> /\ Denylisted(Last(calls).code)) =>
    LET v == skills[1].validation
    IN /\ config.securityReview => v.status = "failed"
       /\ ReviewRan =>
            /\ \E i \in 1..Len(v.securityReview.risks) :
                 v.securityReview.risks[i] =
                   [severity |-> "critical", category |-> "blocked-pattern"]
            /\ ~v.securityReview.passed

\* C13 witness: a text with eval( reached the review with requireReview off
\* and failed it.
DenylistedWitness ==
  /\ ReviewRan
  /\ ~config.requireReview
  /\ Last(calls).code = EvalText
  /\ HasSeverity(skills[1].validation.securityReview.risks, "critical")
  /\ skills[1].validation.status = "failed"

\* The last validate call ran the security review on a text whose only listed
\* constructs are a string-concatenated fetch call and a child_process use,
\* for a skill that declares allow-listed permissions only.
FetchSpawnReviewed ==
  /\ ReviewRan
  /\ Last(calls).code = FetchSpawnText
  /\ ~UnauthorizedPermission(skills[1])

\* C14 (as claimed): under the default configuration that review returns
\* exactly two risks, one 'medium' and one 'high', and fails.
FetchSpawnTwoRisks ==
  (FetchSpawnReviewed /\ config = ConfigWith(TRUE, FALSE, TRUE)) =>
    LET r == skills[1].validation.securityReview
    IN /\ Len(r.risks) = 2
       /\ HasSeverity(r.risks, "medium")
       /\ HasSeverity(r.risks, "high")
       /\ ~r.passed

\* C14 (amended): with the default blockedPatterns and allowedPermissions
\* that review returns exactly three risks, in this order: 'critical'
\* (blocked-pattern, child_process being a default blocked pattern), 'high'
\* (process-execution) and 'medium' (ssrf); the gate and the validation fail
\* whether or not review is required.
FetchSpawnThreeRisks ==
  FetchSpawnReviewed =>
    LET v == skills[1].validation
    IN /\ v.securityReview.risks =
            << [severity |-> "critical", category |-> "blocked-pattern"],
               [severity |-> "high", category |-> "process-execution"],
               [severity |-> "medium", category |-> "ssrf"] >>
       /\ ~v.securityReview.passed
       /\ v.status = "failed"

\* C14 witness: the review of such a text under the default configuration.
FetchSpawnWitness ==
  /\ FetchSpawnReviewed
  /\ config = ConfigWith(TRUE, FALSE, TRUE)
  /\ Len(skills[1].validation.securityReview.risks) = 3
  /\ skills[1].validation.status = "failed"

IndexBefore == EnsureInitialized(repo, FALSE).r.index

\* The step is a call of the named repository operation that returned.
Returned(op) ==
  /\ calls' # <<>>
  /\ calls'[1].op = op
  /\ calls'[1].err = ""
  /\ ~calls'[1].crashed

\* C16 (as claimed): every repository entry has a non-empty version list
\* whose last record carries the entry's currentVersion.
CurrentVersionIsLast ==
  \A id \in DOMAIN repo.index :
    /\ repo.index[id].versions # <<>>
    /\ repo.index[id].currentVersion = Last(repo.index[id].versions).version

\* C17 (as claimed): an updateSkill that returns appends exactly one version
\* record, carrying the new currentVersion; major and minor stay as they were
\* and the patch number grows by one.
UpdateSkillBumpsPatch ==
  [][Returned("updateSkill") =>
       LET id == calls'[1].id
           before == IndexBefore[id]
           after == repo'.index[id]
       IN /\ Len(after.versions) = Len(before.versions) + 1
          /\ SubSeq(after.versions, 1, Len(before.versions)) = before.versions
          /\ Last(after.versions).version = after.currentVersion
          /\ Len(after.currentVersion) = 3
          /\ after.currentVersion[1] = before.currentVersion[1]
          /\ after.currentVersion[2] = before.currentVersion[2]
          /\ IsNumeral(after.currentVersion[3])
          /\ IsNumeral(before.currentVersion[3]) =>
               NumberOf(after.currentVersion[3]) = NumberOf(before.currentVersion[3]) + 1]_vars

\* C18 (as claimed): cleanupOldVersions(N) leaves every entry with at most N
\* version records, the most recent ones in their order, and keeps the record
\* of the entry's currentVersion.
CleanupKeepsMostRecent ==
  [][Returned("cleanupOldVersions") =>
       \A id \in DOMAIN IndexBefore :
         LET b == IndexBefore[id].versions
             a == repo'.index[id].versions
             cv == IndexBefore[id].currentVersion
         IN /\ Len(a) <= calls'[1].arg
            /\ Len(a) <= Len(b)
            /\ a = SubSeq(b, Len(b) - Len(a) + 1, Len(b))
            /\ (\E i \in 1..Len(b) : b[i].version = cv) =>
                 (\E j \in 1..Len(a) : a[j].version = cv)]_vars

\* C19 (as claimed): whenever the index file exists it holds a whole index:
\* the one before the mutation under way, or the one after it.
IndexFileWhole ==
  repo.diskIndex.exists => repo.diskIndex.complete

TypesLogged ==
  {evolutionHistory'[i].type : i \in (Len(evolutionHistory) + 1)..Len(evolutionHistory')}

\* Some gap takes the given status in the step.
GapBecomes(status) ==
  \E g \in 1..Len(gaps') :
    /\ gaps'[g].status = status
    /\ g \in 1..Len(gaps) => gaps[g].status # status

\* Some artifact takes the given status in the step.
SkillBecomes(status) ==
  \E s \in 1..Len(skills') :
    /\ skills'[s].status = status
    /\ s \in 1..Len(skills) => skills[s].status # status

\* Some validate call returns the given verdict in the step.
VerdictGiven(status) ==
  \E c \in 1..Len(calls) :
    /\ calls[c].pc \in {"validate", "revalidate"}
    /\ calls'[c].pc # calls[c].pc
    /\ skills'[calls[c].skill].validation.status = status

\* Some repairSkill call returns a repaired artifact in the step.
RepairDone ==
  \E c \in 1..Len(calls) : calls[c].pc = "repair" /\ calls'[c].pc = "revalidate"

\* C21 (as claimed): every transition of the pipeline is logged in the step
\* that makes it: a gap becoming generating, resolved or failed, a validation
\* verdict, the repair, and an artifact becoming validated or deployed each
\* come with an event of the matching type.
EveryTransitionLogged ==
  [][/\ GapBecomes("generating") => "generation_started" \in TypesLogged
     /\ GapBecomes("resolved") => "skill_deployed" \in TypesLogged
     /\ GapBecomes("failed") =>
          TypesLogged \cap {"validation_failed", "generation_completed"} # {}
     /\ VerdictGiven("passed") => "validation_passed" \in TypesLogged
     /\ VerdictGiven("failed") => "validation_failed" \in TypesLogged
     /\ RepairDone => "skill_repaired" \in TypesLogged
     /\ SkillBecomes("validated") => "validation_passed" \in TypesLogged
     /\ SkillBecomes("deployed") => "skill_deployed" \in TypesLogged]_vars

\* The step is a reportFailure call.
Reported == Len(calls') = Len(calls) + 1

\* C22: a reportFailure whose capability analysis answers that no skill is
\* needed, or answers nothing that can be parsed, or fails, returns null and
\* leaves gaps, pending set, event history and busy flag as they were.
NegativeReportChangesNothing ==
  [][Reported /\ Last(calls').answer # "positive" =>
       /\ Last(calls').ret = "null"
       /\ Last(calls').run = 0
       /\ UNCHANGED <<gaps, pendingGaps, evolutionHistory, isEvolving>>]_vars

\* an engine with auto-evolution on has recorded a gap and then got a
\* negative, an unparsable and a failed analysis
NegativeReportWitness ==
  /\ config.autoEvolve
  /\ Len(calls) = MaxReports
  /\ calls[1].answer = "positive"
  /\ calls[2].answer \in {"negative", "badJson"}
  /\ calls[3].answer \in {"throws", "noJsonBlock"}
  /\ calls[2].ret = "null" /\ calls[3].ret = "null"
  /\ Len(gaps) = 1

\* C23 (as claimed): every reportFailure with a positive judgment returns a
\* new gap that is in the pending set, with or without auto-evolution, and
\* starts a pipeline only when auto-evolution is on.
PositiveReportRecordsGap ==
  \A i \in 1..Len(calls) :
    calls[i].answer = "positive" =>
      /\ calls[i].ret = "gap"
      /\ calls[i].gap \in pendingGaps
      /\ calls[i].run > 0 => config.autoEvolve

\* C24 (as claimed): the hash of a version record is the hash of the source
\* text it was made from, and an updateSkill whose source text has the hash of
\* the entry's current version adds no version record and leaves
\* currentVersion as it was.
SameHashUpdateIsNoOp ==
  [][Returned("updateSkill") =>
       LET id == calls'[1].id
           before == IndexBefore[id]
           after == repo'.index[id]
           hash == HashCode(calls'[1].arg)
       IN /\ after.versions # before.versions => Last(after.versions).hash = hash
          /\ (\E i \in 1..Len(before.versions) :
                /\ before.versions[i].version = before.currentVersion
                /\ before.versions[i].hash = hash) =>
               /\ after.versions = before.versions
               /\ after.currentVersion = before.currentVersion]_vars

\* The recordExecution calls made so far on id that found its entry.
Recorded(id) == {i \in 1..Len(calls) : calls[i].id = id /\ calls[i].found}

RECURSIVE SumOfTimes(_)
SumOfTimes(is) ==
  IF is = {} THEN 0
  ELSE LET i == CHOOSE j \in is : TRUE
       IN calls[i].time + SumOfTimes(is \ {i})

\* x differs from num / den by at most scale * 2^(1 - MantissaBits)
WithinRounding(x, num, den, scale) ==
  LET up == Pow2(x.e)
      down == Pow2(-x.e)
  IN Abs(x.m * up * den - num * down) * Pow2(MantissaBits - 1) <= scale * den * down

StatsAreMeansUpToRounding ==
  \A id \in DOMAIN repo.index :
    LET n == Cardinality(Recorded(id))
        k == Cardinality({i \in Recorded(id) : calls[i].success})
        stats == repo.index[id].stats
        longest == CHOOSE t \in ExecutionTimes : \A u \in ExecutionTimes : u <= t
    IN /\ stats.executionCount = n
       /\ n = 0 => stats.successRate = FloatZero /\ stats.averageExecutionTime = FloatZero
       /\ n > 0 =>
            /\ WithinRounding(stats.successRate, k, n, n)
            /\ WithinRounding(stats.averageExecutionTime,
                              SumOfTimes(Recorded(id)), n, n * longest)

\* a recordExecution call that does not find its id changes nothing
UnknownIdChangesNothing ==
  Len(calls') = Len(calls) + 1 /\ ~Last(calls').found => repo' = repo

SynthesisOutcomes ==
  {[threw |-> TRUE, text |-> EmptyText]} \cup
  {[threw |-> FALSE, text |-> text] : text \in SynthesisTexts}

\* C26 (as claimed): generateSkill calls code synthesis at most maxIterations
\* times, stops at the first text that passes basicSyntaxCheck, gives the
\* artifact the number of calls made as its iteration count, and throws only
\* when no call has produced a source text; after maxIterations texts that
\* fail the check it returns the last one.
GenerateSkillThrowsOnlyWithoutText ==
  [][\A c \in 1..Len(calls), o \in SynthesisOutcomes :
       calls[c].pc = "code" /\ GenerateCodeStep(c, o.threw, o.text) =>
         /\ calls[c].iterations < MaxIterations
         /\ (~o.threw /\ BasicSyntaxCheck(o.text)) => calls'[c].pc = "validate"
         /\ calls'[c].pc = "code" => calls'[c].iterations = calls[c].iterations + 1
         /\ calls'[c].pc = "validate" =>
              Last(skills').iterations = calls[c].iterations + 1
         /\ calls'[c].pc = "done" => o.threw /\ calls[c].code = EmptyText
         /\ (~o.threw /\ calls[c].iterations + 1 = MaxIterations) =>
              calls'[c].pc = "validate" /\ Last(skills').code = o.text]_vars

\* C26: generateSkill calls code synthesis at most maxIterations times, stops
\* at the first text that passes basicSyntaxCheck and gives the artifact the
\* number of calls made as its iteration count; when the loop ends it throws
\* if and only if the text of the latest call that returned is empty or no
\* call returned, and otherwise returns that text, whether or not it passes
\* the check.
GenerateSkillThrowsOnEmptyText ==
  [][\A c \in 1..Len(calls), o \in SynthesisOutcomes :
       calls[c].pc = "code" /\ GenerateCodeStep(c, o.threw, o.text) =>
         LET made == calls[c].iterations + 1
             code == IF o.threw THEN calls[c].code ELSE o.text
             ends == (~o.threw /\ BasicSyntaxCheck(o.text)) \/ made = MaxIterations
         IN /\ made <= MaxIterations
            /\ ~BasicSyntaxCheck(calls[c].code)
            /\ ~ends => calls'[c].pc = "code" /\ calls'[c].iterations = made
            /\ (ends /\ code = EmptyText) =>
                 /\ calls'[c].pc = "done" /\ calls'[c].ret = "null"
                 /\ skills' = skills
            /\ (ends /\ code # EmptyText) =>
                 /\ calls'[c].pc = "validate"
                 /\ Len(skills') = Len(skills) + 1
                 /\ Last(skills').code = code
                 /\ Last(skills').iterations = made]_vars

\* a run in which every synthesis call returned and the last text was empty
\* ended in the catch branch, with the error generateSkill throws when no
\* call threw
GenerateSkillWitness ==
  \E c \in 1..Len(calls) :
    /\ calls[c].pc = "done"
    /\ calls[c].ret = "null"
    /\ calls[c].err = "Error: code generation failed"
    /\ gaps[calls[c].gap].status = "failed"
    /\ skills = <<>>

\* The flag is set exactly while an admitted run has not ended.
BusyWhileRunning == isEvolving <=> Running # {}

\* An evolveSkill call for a pending gap made while the flag is set is
\* dropped and leaves the flag set; made while it is clear, it is admitted.
DropKeepsFlag ==
  Len(calls') = Len(calls) + 1 /\ Last(calls').gap \in pendingGaps' =>
    IF isEvolving
    THEN /\ Last(calls').ret = "null" /\ Last(calls').run = 0
         /\ isEvolving'
         /\ \A c \in 1..Len(calls) : calls'[c] = calls[c]
    ELSE /\ Last(calls').run > 0 /\ Last(calls').pc = "template"
         /\ isEvolving'

\* C27: the busy flag is set exactly while an admitted run is in progress, so
\* every run that ends, by success, failed validation or a caught exception,
\* leaves it clear; a call dropped for contention leaves it set and the run
\* in progress untouched; and a call for a pending gap made when no run is
\* in progress is admitted.
BusyFlagReleased ==
  /\ []BusyWhileRunning
  /\ [][DropKeepsFlag]_vars

\* a first run ended, a call made during it was dropped, and a call made
\* after it was admitted as the second run
BusyFlagWitness ==
  /\ Len(calls) = 3
  /\ calls[1].run = 1 /\ calls[1].pc = "done"
  /\ calls[2].run = 0 /\ calls[2].ret = "null" /\ calls[2].err = ""
  /\ calls[3].run = 2 /\ calls[3].pc = "template"
  /\ isEvolving

\* The answers validateTypes cannot use.
UnusableTypeAnswers == {"unparsable", "noJsonBlock", "throws"}

\* C28: when the type check is on and the completion call throws, or its
\* response holds no JSON block, or the block cannot be parsed, validate
\* records typeCheckPassed = true and goes on to the security gate: the call
\* leaves the record a call with the answer 'valid' would leave.
TypeGateFailsOpen ==
  [][(/\ Len(calls') = Len(calls) + 1
      /\ config.typeCheck
      /\ ValidateSyntax(skills[1].code)
      /\ Last(calls').typeAnswer \in UnusableTypeAnswers) =>
       /\ skills'[1].validation.typeCheckPassed
       /\ skills'[1] = Validate(skills[1], config, "valid", Last(calls').testAnswers)
       /\ config.securityReview =>
            skills'[1].validation.securityReview = PerformSecurityReview(skills[1], config)
       /\ skills'[1].validation.status = "failed" =>
            \/ config.securityReview /\ ~skills'[1].validation.securityReview.passed
            \/ BelowCoverage(skills'[1].validation.testResults)]_vars

\* a validation whose type check threw passed with all gates switched on
TypeGateWitness ==
  /\ calls # <<>>
  /\ Last(calls).typeAnswer = "throws"
  /\ Last(calls).code = skills[1].code
  /\ config.typeCheck /\ config.securityReview /\ config.runTests
  /\ skills[1].validation.typeCheckPassed
  /\ skills[1].validation.status = "passed"
  /\ skills[1].template.testCases > 0

\* C29: after any sequence of add and updateSkill, for every entry of the
\* index the file at the entry's source path holds the text whose hash is the
\* hash of the entry's last version record, also when two ids have names
\* with one slug.
SourceFileHoldsLastVersion ==
  \A id \in DOMAIN repo.index :
    LET entry == repo.index[id]
    IN /\ entry.paths.typescript \in DOMAIN repo.files
       /\ HashCode(repo.files[entry.paths.typescript]) = Last(entry.versions).hash

\* C30: an add or updateSkill in which a file write failed leaves the index
\* in memory holding what the index file holds, and leaves the files as the
\* call found them.
FailedWriteLeavesRepositoryUnchanged ==
  [][(calls' # <<>> /\ calls'[1].err = FsError) =>
       /\ repo'.index = repo'.diskIndex.skills
       /\ repo'.files = repo.files]_vars

====
